---- MODULE Spec2Model ----
(***************************************************************************)
(* Offline synchronisation engine of teachLink_mobile:                     *)
(*   - OfflineStorage sync queue   (services/offlineStorage)               *)
(*   - SyncService driver          (services/syncService)                  *)
(*   - OfflineStorage record store (services/offlineStorage)               *)
(*   - useOfflineData cache        (hooks/useOfflineData)                  *)
(* Every await of the source is a suspension point: a handler is modelled  *)
(* as the sequence of its atomic segments between awaits.                  *)
(***************************************************************************)
EXTENDS Integers, Sequences, FiniteSets, Bags, TLC

\* ---------------------------------------------------------------- bounds
MaxOps == 3          \* operation ids ever generated
MaxPasses == 2       \* invocations of syncPendingOperations
MaxFaults == 1       \* rejected AsyncStorage reads / writes
MaxTime == 1         \* ticks of Date.now()
MaxClientCalls == 3  \* queue calls made by callers other than the driver
MaxNetChanges == 1   \* changes of the network state
MaxClears == 1       \* clearSyncQueue / clearFailedOperations calls beside the driver
MaxVal == 3          \* numbers in the values given to resolveConflicts
MaxLen == 2          \* length of the arrays given to resolveConflicts
MaxCacheCalls == 2   \* calls the user interface makes on the useOfflineData hook
MaxCacheFaults == 2  \* rejected AsyncStorage accesses while the hook is used
MaxAutoSyncs == 2    \* syncAll invocations made by the auto-sync effect
MaxListeners == 3    \* listeners registered with the driver at a time
MaxAutoCalls == 4    \* startAutoSync and stopAutoSync calls
MaxQueue == 11       \* operations a previous session left in the queue
MaxAdds == 101       \* notifications received
MaxNoteCalls == 1    \* markAsRead, markAllAsRead, remove and clear calls

\* ------------------------------------------------------ program constants
MAX_RETRIES == 3
MaxConcurrentSyncs == 3
RetryDelay == 5000
BatchSize == 10
KeepLast == 100

VARIABLES
  store,       \* the persisted sync queue (data of @teachlink_sync_queue)
  now,         \* Date.now()
  nextId,      \* ids handed out by generateOperationId so far, plus one
  faults,      \* storage rejections still to come
  net,         \* what Network.getNetworkStateAsync reports
  netChanges,  \* changes of net so far
  isSyncing,   \* SyncService.isSyncing
  passes,      \* invocations of syncPendingOperations
  disp,        \* processOperation invocations in flight (a bag)
  timers,      \* retry callbacks scheduled by setTimeout (a bag)
  clients,     \* queue calls of other callers in flight (a bag)
  clientCalls, \* such calls still to be made
  listening,   \* a listener is registered and the remote API is observed
  trace,       \* what that observer saw: remote calls, their results, events
  conflict,    \* the last resolveConflicts call: its arguments and what it returned
  blob,        \* the dictionary persisted under the data-type key
  data,        \* useOfflineData's state `data`, as of the last render
  online,      \* useNetworkStatus' isOnline, as of the last render
  cacheSyncing,\* useOfflineData's state `isSyncing`
  tasks,       \* calls of the hook's callbacks in flight (a bag)
  effectDue,   \* a dependency of the auto-sync effect changed since it last ran
  autoSync,    \* the hook's option
  cacheCalls,  \* calls the user interface may still make on the hook
  callSeq,     \* syncAll invocations so far
  autoSyncs,   \* those of them made by the auto-sync effect
  wentOnline,  \* times isOnline turned true
  userCalls,   \* calls of addItem, updateItem and deleteItem so far
  offline,     \* the mutations made while isOnline was false
  lastCall,    \* the last call that settled: what it saw and how it ended
  eventListeners, \* SyncService.eventListeners
  emitted,     \* the last emitEvent: the listeners it met, called, and what escaped
  syncIntervalId, \* SyncService.syncIntervalId (0: null)
  intervals,   \* the interval timers installed by setInterval and not cleared
  timerIds,    \* interval timer ids handed out so far
  lastAuto,    \* the last startAutoSync, stopAutoSync or interval callback
  notifications, \* useNotificationStore's notifications
  unreadCount, \* useNotificationStore's unreadCount
  noteIds,     \* ids handed out by generateId so far
  noteCalls    \* markAsRead, markAllAsRead, remove and clear calls so far

\* the variables of the queue and of the driver's passes
engine == <<store, now, nextId, faults, net, netChanges, isSyncing, passes,
            disp, timers, clients, clientCalls>>

\* the variables the queue and the passes leave alone
cache == <<blob, data, online, cacheSyncing, tasks, effectDue, autoSync,
           cacheCalls, callSeq, autoSyncs, wentOnline, userCalls, offline, lastCall>>

\* the listener list, the periodic timer and the notification store
bus == <<eventListeners, emitted>>

sched == <<syncIntervalId, intervals, timerIds, lastAuto>>

notes == <<notifications, unreadCount, noteIds, noteCalls>>

rest == <<bus, sched, notes>>

aux == <<conflict, cache, rest>>

vars == <<engine, listening, trace, aux>>

\* ------------------------------------------------------------ operations
OpTypes == {"CREATE", "UPDATE", "DELETE", "READ"}
Priorities == {"high", "medium", "low"}

\* SyncOperationInput values the callers pass to addToSyncQueue
AddInputs ==
  { [type |-> "CREATE", endpoint |-> "/courses/42", data |-> "d1", priority |-> "high"],
    [type |-> "UPDATE", endpoint |-> "/courses/42", data |-> "d2", priority |-> "medium"],
    [type |-> "DELETE", endpoint |-> "/courses/7",  data |-> "d3", priority |-> "medium"],
    [type |-> "READ",   endpoint |-> "/courses/7",  data |-> "d4", priority |-> "low"] }

MkOp(id, inp, ts, r) ==
  [id |-> id, type |-> inp.type, endpoint |-> inp.endpoint, data |-> inp.data,
   timestamp |-> ts, retries |-> r, maxRetries |-> MAX_RETRIES,
   priority |-> inp.priority]

Ids(q) == {q[i].id : i \in 1..Len(q)}

\* addToSyncQueue's comparator
PriorityOrder(p) == CASE p = "high" -> 0 [] p = "medium" -> 1 [] OTHER -> 2

Compare(a, b) ==
  IF PriorityOrder(a.priority) # PriorityOrder(b.priority)
  THEN PriorityOrder(a.priority) - PriorityOrder(b.priority)
  ELSE a.timestamp - b.timestamp

RECURSIVE Insert(_, _)
Insert(x, s) ==
  IF s = <<>> THEN <<x>>
  ELSE IF Compare(Head(s), x) <= 0 THEN <<Head(s)>> \o Insert(x, Tail(s))
  ELSE <<x>> \o s

\* Array.prototype.sort with that comparator (a stable sort)
RECURSIVE SortWith(_)
SortWith(q) ==
  IF q = <<>> THEN <<>>
  ELSE Insert(q[Len(q)], SortWith(SubSeq(q, 1, Len(q) - 1)))

Unsorted(q) == q

SortQueue(q) == SortWith(q)

\* queue.filter(op => op.id !== operationId)
RECURSIVE FilterOut(_, _)
FilterOut(q, id) ==
  IF q = <<>> THEN <<>>
  ELSE IF Head(q).id # id THEN <<Head(q)>> \o FilterOut(Tail(q), id)
  ELSE FilterOut(Tail(q), id)

\* queue.find(op => op.id === operationId): its index, 0 when absent
FindIndex(q, id) ==
  IF \E i \in 1..Len(q) : q[i].id = id
  THEN CHOOSE i \in 1..Len(q) : q[i].id = id /\ \A j \in 1..(i - 1) : q[j].id # id
  ELSE 0

\* operation.retries += 1 on the operation found
Incremented(q, id) ==
  LET i == FindIndex(q, id)
  IN IF i = 0 THEN q ELSE [q EXCEPT ![i].retries = @ + 1]

\* queue.filter(op => op.retries >= op.maxRetries)
FailedOperations(q) == SelectSeq(q, LAMBDA op : op.retries >= op.maxRetries)

\* ---------------------------------------------------------------- storage
\* retrieve: a rejected getItem or a failed JSON.parse is logged and null is
\* returned, which getSyncQueue turns into the empty queue
GetSyncQueue(ok) == IF ok THEN store ELSE <<>>

\* whether a storage access succeeds; a rejection uses up one fault
Outcomes == IF faults > 0 THEN {TRUE, FALSE} ELSE {TRUE}

Spend(ok) == faults' = (IF ok THEN faults ELSE faults - 1)

\* ------------------------------------------------------------ observation
Entry(k, name, id, endpoint, payload) ==
  [k |-> k, name |-> name, id |-> id, endpoint |-> endpoint, data |-> payload]

CallEntry(verb, op, withData) ==
  Entry("call", verb, op.id, op.endpoint, IF withData THEN op.data ELSE "none")

ResultEntry(name, id) == Entry("result", name, id, "", "")

\* emitEvent: every registered listener is called with the event
EventEntry(type, id) == Entry("event", type, id, "", "")

Observe(entries) == trace' = (IF listening THEN trace \o entries ELSE trace)

\* ---------------------------------------------------------- caller's calls
ClientTask(kind, id, wq, todo) == [kind |-> kind, id |-> id, wq |-> wq, todo |-> todo]

One(x) == SetToBag({x})

CanCall == clientCalls > 0

\* addToSyncQueue up to its await of store(): the queue is read, the
\* operation is built, pushed and the queue sorted
AddRead(inp, ok) ==
  /\ CanCall /\ nextId <= MaxOps
  /\ Spend(ok)
  /\ LET op == MkOp(nextId, inp, now, 0)
         wq == SortQueue(Append(GetSyncQueue(ok), op))
     IN clients' = clients (+) One(ClientTask("add", nextId, wq, <<>>))
  /\ nextId' = nextId + 1
  /\ clientCalls' = clientCalls - 1
  /\ UNCHANGED <<store, now, net, netChanges, isSyncing, passes, disp, timers,
                 listening, trace, aux>>

\* addToSyncQueue's store(): the write, or its rejection, which is rethrown
AddWrite(c, ok) ==
  /\ c.kind = "add" /\ BagIn(c, clients)
  /\ Spend(ok)
  /\ store' = (IF ok THEN c.wq ELSE store)
  /\ clients' = clients (-) One(c)
  /\ UNCHANGED <<now, nextId, net, netChanges, isSyncing, passes, disp, timers,
                 clientCalls, listening, trace, aux>>

\* removeFromSyncQueue called by a caller, up to its await of store()
RemoveRead(id, ok) ==
  /\ CanCall
  /\ Spend(ok)
  /\ clients' = clients (+) One(ClientTask("rm", id, FilterOut(GetSyncQueue(ok), id), <<>>))
  /\ clientCalls' = clientCalls - 1
  /\ UNCHANGED <<store, now, nextId, net, netChanges, isSyncing, passes, disp,
                 timers, listening, trace, aux>>

\* removeFromSyncQueue's store(): the write, or its rejection, which is logged
RemoveWrite(c, ok) ==
  /\ c.kind = "rm" /\ BagIn(c, clients)
  /\ Spend(ok)
  /\ store' = (IF ok THEN c.wq ELSE store)
  /\ clients' = clients (-) One(c)
  /\ UNCHANGED <<now, nextId, net, netChanges, isSyncing, passes, disp, timers,
                 clientCalls, listening, trace, aux>>

\* incrementRetryCount called on its own, up to its await of store(); without
\* the operation nothing is stored
IncrementRead(id, ok) ==
  /\ CanCall
  /\ Spend(ok)
  /\ LET queue == GetSyncQueue(ok)
     IN clients' = (IF FindIndex(queue, id) # 0
                    THEN clients (+) One(ClientTask("inc", id, Incremented(queue, id), <<>>))
                    ELSE clients)
  /\ clientCalls' = clientCalls - 1
  /\ UNCHANGED <<store, now, nextId, net, netChanges, isSyncing, passes, disp,
                 timers, listening, trace, aux>>

\* incrementRetryCount's store(): the write, or its rejection, which is logged
IncrementWrite(c, ok) ==
  /\ c.kind = "inc" /\ BagIn(c, clients)
  /\ Spend(ok)
  /\ store' = (IF ok THEN c.wq ELSE store)
  /\ clients' = clients (-) One(c)
  /\ UNCHANGED <<now, nextId, net, netChanges, isSyncing, passes, disp, timers,
                 clientCalls, listening, trace, aux>>

\* clearSyncQueue: one store() of the empty queue, whose rejection is thrown
ClearSyncQueue(ok) ==
  /\ CanCall
  /\ Spend(ok)
  /\ store' = (IF ok THEN <<>> ELSE store)
  /\ clientCalls' = clientCalls - 1
  /\ UNCHANGED <<now, nextId, net, netChanges, isSyncing, passes, disp, timers,
                 clients, listening, trace, aux>>

\* Date.now() advances
Tick ==
  /\ now < MaxTime
  /\ now' = now + 1
  /\ UNCHANGED <<store, nextId, faults, net, netChanges, isSyncing, passes, disp,
                 timers, clients, clientCalls, listening, trace, aux>>

\* clearFailedOperations up to its loop: the failed operations are read
ClearFailedRead(ok) ==
  /\ CanCall
  /\ Spend(ok)
  /\ LET failedOps == FailedOperations(GetSyncQueue(ok))
         todo == [i \in 1..Len(failedOps) |-> failedOps[i].id]
     IN clients' = (IF todo = <<>> THEN clients
                    ELSE clients (+) One(ClientTask("cf_r", 0, <<>>, todo)))
  /\ clientCalls' = clientCalls - 1
  /\ UNCHANGED <<store, now, nextId, net, netChanges, isSyncing, passes, disp,
                 timers, listening, trace, aux>>

\* clearFailedOperations' loop body: removeFromSyncQueue(op.id) up to store()
ClearFailedRemoveRead(c, ok) ==
  /\ c.kind = "cf_r" /\ BagIn(c, clients)
  /\ Spend(ok)
  /\ clients' = (clients (-) One(c))
        (+) One(ClientTask("cf_w", Head(c.todo),
                           FilterOut(GetSyncQueue(ok), Head(c.todo)), Tail(c.todo)))
  /\ UNCHANGED <<store, now, nextId, net, netChanges, isSyncing, passes, disp,
                 timers, clientCalls, listening, trace, aux>>

\* ... and its store(); then the next failed operation, or the end
ClearFailedRemoveWrite(c, ok) ==
  /\ c.kind = "cf_w" /\ BagIn(c, clients)
  /\ Spend(ok)
  /\ store' = (IF ok THEN c.wq ELSE store)
  /\ clients' = (IF c.todo = <<>> THEN clients (-) One(c)
                 ELSE (clients (-) One(c)) (+) One(ClientTask("cf_r", 0, <<>>, c.todo)))
  /\ UNCHANGED <<now, nextId, net, netChanges, isSyncing, passes, disp, timers,
                 clientCalls, listening, trace, aux>>

\* ----------------------------------------------------------------- network
NetStates ==
  { [isConnected |-> "true",  isInternetReachable |-> "true",  throws |-> FALSE],
    [isConnected |-> "true",  isInternetReachable |-> "false", throws |-> FALSE],
    [isConnected |-> "false", isInternetReachable |-> "null",  throws |-> FALSE],
    [isConnected |-> "true",  isInternetReachable |-> "true",  throws |-> TRUE] }

\* x ?? false
OrFalse(x) == x = "true"

\* checkConnectivity
CheckConnectivity(n) ==
  IF n.throws THEN FALSE ELSE OrFalse(n.isConnected) /\ OrFalse(n.isInternetReachable)

SetNetwork(n) ==
  /\ netChanges < MaxNetChanges
  /\ n # net
  /\ net' = n
  /\ netChanges' = netChanges + 1
  /\ UNCHANGED <<store, now, nextId, faults, isSyncing, passes, disp, timers,
                 clients, clientCalls, listening, trace, aux>>

\* ------------------------------------------------------------- the driver
Min(a, b) == IF a < b THEN a ELSE b

RECURSIVE Pow2(_)
Pow2(n) == IF n = 0 THEN 1 ELSE 2 * Pow2(n - 1)

\* calculateRetryDelay
LinearRetryDelay(retryCount) == RetryDelay * (retryCount + 1)

CalculateRetryDelay(retryCount) == RetryDelay * Pow2(retryCount)

\* createBatches
NumBatches(q) == (Len(q) + BatchSize - 1) \div BatchSize

CreateBatches(q) ==
  [b \in 1..NumBatches(q) |->
     SubSeq(q, (b - 1) * BatchSize + 1, Min(b * BatchSize, Len(q)))]

SliceAll(batch) == batch

\* operations.slice(0, maxConcurrentSyncs)
Slice(batch) == SubSeq(batch, 1, Min(Len(batch), MaxConcurrentSyncs))

CallOfSwapped(op) ==
  CASE op.type = "CREATE" -> CallEntry("put", op, TRUE)
    [] op.type = "UPDATE" -> CallEntry("post", op, TRUE)
    [] op.type = "DELETE" -> CallEntry("delete", op, FALSE)
    [] OTHER              -> CallEntry("get", op, FALSE)

\* the remote call processOperation makes for an operation
CallOf(op) ==
  CASE op.type = "CREATE" -> CallEntry("post", op, TRUE)
    [] op.type = "UPDATE" -> CallEntry("put", op, TRUE)
    [] op.type = "DELETE" -> CallEntry("delete", op, FALSE)
    [] OTHER              -> CallEntry("get", op, FALSE)

\* a processOperation invocation: its argument, where it is suspended, the pass
\* awaiting it (0: a retry callback) and the queue it is about to store
DispTask(op, pc, parent, wq) == [op |-> op, pc |-> pc, parent |-> parent, wq |-> wq]

\* processBatch: processOperation is started on the first operations of the batch
Started(batch, p) ==
  SetToBag({DispTask(Slice(batch)[i], "api", p, <<>>) : i \in 1..Len(Slice(batch))})

CallsOf(batch) == [i \in 1..Len(Slice(batch)) |-> CallOf(Slice(batch)[i])]

Pass(pc, q, bi) == [pc |-> pc, q |-> q, bi |-> bi]

InFlight(p) == passes[p].pc \in {"conn", "load", "batch"}

\* nothing is suspended
Quiet ==
  /\ \A p \in 1..MaxPasses : ~InFlight(p)
  /\ disp = EmptyBag
  /\ clients = EmptyBag

\* syncPendingOperations (from the timer or manualSync) up to its first await:
\* the isSyncing guard
PassBegin(p) ==
  /\ passes[p].pc = "idle"
  /\ \A r \in 1..(p - 1) : passes[r].pc # "idle"
  /\ passes' = [passes EXCEPT ![p].pc = IF isSyncing THEN "skipped" ELSE "conn"]

PassStart(p) ==
  /\ PassBegin(p)
  /\ UNCHANGED <<store, now, nextId, faults, net, netChanges, isSyncing, disp,
                 timers, clients, clientCalls, listening, trace, aux>>

PassConnFlagFirst(p) ==
  /\ passes[p].pc = "conn"
  /\ isSyncing' = TRUE
  /\ passes' = [passes EXCEPT ![p].pc = IF CheckConnectivity(net) THEN "load" ELSE "offline"]
  /\ UNCHANGED <<store, now, nextId, faults, net, netChanges, disp, timers,
                 clients, clientCalls, listening, trace, aux>>

\* checkConnectivity resolves: return when offline, else isSyncing = true and
\* getSyncQueue is awaited
PassConn(p) ==
  /\ passes[p].pc = "conn"
  /\ IF CheckConnectivity(net)
     THEN /\ isSyncing' = TRUE
          /\ passes' = [passes EXCEPT ![p].pc = "load"]
     ELSE /\ isSyncing' = isSyncing
          /\ passes' = [passes EXCEPT ![p].pc = "offline"]
  /\ UNCHANGED <<store, now, nextId, faults, net, netChanges, disp, timers,
                 clients, clientCalls, listening, trace, aux>>

\* getSyncQueue resolves: return on an empty queue (finally: isSyncing = false),
\* else the batches are cut and the first one is started
PassLoad(p, ok) ==
  /\ passes[p].pc = "load"
  /\ Spend(ok)
  /\ LET queue == GetSyncQueue(ok)
     IN IF Len(queue) = 0
        THEN /\ isSyncing' = FALSE
             /\ passes' = [passes EXCEPT ![p] = Pass("done", <<>>, 0)]
             /\ UNCHANGED <<disp, trace>>
        ELSE /\ isSyncing' = isSyncing
             /\ passes' = [passes EXCEPT ![p] = Pass("batch", queue, 1)]
             /\ disp' = disp (+) Started(CreateBatches(queue)[1], p)
             /\ Observe(CallsOf(CreateBatches(queue)[1]))
  /\ UNCHANGED <<store, now, nextId, net, netChanges, timers, clients,
                 clientCalls, listening, aux>>

\* Promise.all of a batch resolves: the next batch, or the end of the pass
\* (syncCompleted, finally: isSyncing = false)
PassNext(p) ==
  /\ passes[p].pc = "batch"
  /\ \A d \in BagToSet(disp) : d.parent # p
  /\ LET batches == CreateBatches(passes[p].q)
         bi == passes[p].bi
     IN IF bi < Len(batches)
        THEN /\ passes' = [passes EXCEPT ![p].bi = bi + 1]
             /\ disp' = disp (+) Started(batches[bi + 1], p)
             /\ Observe(CallsOf(batches[bi + 1]))
             /\ isSyncing' = isSyncing
        ELSE /\ passes' = [passes EXCEPT ![p].pc = "done"]
             /\ Observe(<<EventEntry("syncCompleted", 0)>>)
             /\ isSyncing' = FALSE
             /\ disp' = disp
  /\ UNCHANGED <<store, now, nextId, faults, net, netChanges, timers, clients,
                 clientCalls, listening, aux>>

Move(d, e) == disp' = (disp (-) One(d)) (+) One(e)

\* the remote call resolves: removeFromSyncQueue is awaited
ApiOk(d) ==
  /\ BagIn(d, disp) /\ d.pc = "api"
  /\ Move(d, [d EXCEPT !.pc = "rm_read"])
  /\ Observe(<<ResultEntry("ok", d.op.id)>>)
  /\ UNCHANGED <<store, now, nextId, faults, net, netChanges, isSyncing, passes,
                 timers, clients, clientCalls, listening, aux>>

\* removeFromSyncQueue up to its store()
DispRemoveRead(d, ok) ==
  /\ BagIn(d, disp) /\ d.pc = "rm_read"
  /\ Spend(ok)
  /\ Move(d, [d EXCEPT !.pc = "rm_write", !.wq = FilterOut(GetSyncQueue(ok), d.op.id)])
  /\ UNCHANGED <<store, now, nextId, net, netChanges, isSyncing, passes, timers,
                 clients, clientCalls, listening, trace, aux>>

\* its store() (a rejection is logged), then operationProcessed is emitted
DispRemoveWrite(d, ok) ==
  /\ BagIn(d, disp) /\ d.pc = "rm_write"
  /\ Spend(ok)
  /\ store' = (IF ok THEN d.wq ELSE store)
  /\ disp' = disp (-) One(d)
  /\ Observe(<<EventEntry("operationProcessed", d.op.id)>>)
  /\ UNCHANGED <<now, nextId, net, netChanges, isSyncing, passes, timers,
                 clients, clientCalls, listening, aux>>

Timer(id, delay) == [id |-> id, delay |-> delay]

\* the end of the catch branch after incrementRetryCount: setTimeout of the
\* retry, then syncFailed is emitted
ScheduleRetry(d) ==
  /\ timers' = timers (+) One(Timer(d.op.id, CalculateRetryDelay(d.op.retries)))
  /\ disp' = disp (-) One(d)
  /\ Observe(<<EventEntry("syncFailed", d.op.id)>>)

AlwaysRetry(op) == TRUE

\* the catch branch's test
MayRetry(op) == op.retries < op.maxRetries

\* the remote call rejects: incrementRetryCount is awaited, or the failure is
\* permanent (handlePermanentFailure logs) and syncFailed is emitted
ApiFail(d) ==
  /\ BagIn(d, disp) /\ d.pc = "api"
  /\ IF MayRetry(d.op)
     THEN /\ Move(d, [d EXCEPT !.pc = "inc_read"])
          /\ Observe(<<ResultEntry("fail", d.op.id)>>)
     ELSE /\ disp' = disp (-) One(d)
          /\ Observe(<<ResultEntry("fail", d.op.id), EventEntry("syncFailed", d.op.id)>>)
  /\ UNCHANGED <<store, now, nextId, faults, net, netChanges, isSyncing, passes,
                 timers, clients, clientCalls, listening, aux>>

\* incrementRetryCount up to its store(); without the operation nothing is stored
DispIncRead(d, ok) ==
  /\ BagIn(d, disp) /\ d.pc = "inc_read"
  /\ Spend(ok)
  /\ LET queue == GetSyncQueue(ok)
     IN IF FindIndex(queue, d.op.id) # 0
        THEN /\ Move(d, [d EXCEPT !.pc = "inc_write", !.wq = Incremented(queue, d.op.id)])
             /\ UNCHANGED <<timers, trace>>
        ELSE ScheduleRetry(d)
  /\ UNCHANGED <<store, now, nextId, net, netChanges, isSyncing, passes, clients,
                 clientCalls, listening, aux>>

IncrementRethrows(rejected) == rejected

\* incrementRetryCount's catch: a rejected store() is logged, not thrown
IncrementRejects(rejected) == FALSE

\* processOperation rejects out of its catch branch: the Promise.all of the
\* pass awaiting it rejects, the pass emits syncFailed and, in its finally,
\* resets isSyncing; a retry callback's rejection is handled by nobody
Rejected(d) ==
  /\ disp' = disp (-) One(d)
  /\ timers' = timers
  /\ IF d.parent # 0 /\ passes[d.parent].pc = "batch"
     THEN /\ passes' = [passes EXCEPT ![d.parent].pc = "failed"]
          /\ isSyncing' = FALSE
          /\ Observe(<<EventEntry("syncFailed", 0)>>)
     ELSE UNCHANGED <<passes, isSyncing, trace>>

\* its store() (a rejection is logged), then the retry is scheduled
DispIncWrite(d, ok) ==
  /\ BagIn(d, disp) /\ d.pc = "inc_write"
  /\ Spend(ok)
  /\ store' = (IF ok THEN d.wq ELSE store)
  /\ IF IncrementRejects(~ok)
     THEN Rejected(d)
     ELSE ScheduleRetry(d) /\ UNCHANGED <<isSyncing, passes>>
  /\ UNCHANGED <<now, nextId, net, netChanges, clients, clientCalls, listening, aux>>

\* a retry callback runs: retryOperation reads the queue and, when the
\* operation is still there, calls processOperation on what it read
RetryFire(t, ok) ==
  /\ BagIn(t, timers)
  /\ Spend(ok)
  /\ timers' = timers (-) One(t)
  /\ LET queue == GetSyncQueue(ok)
         i == FindIndex(queue, t.id)
     IN IF i # 0
        THEN /\ disp' = disp (+) One(DispTask(queue[i], "api", 0, <<>>))
             /\ Observe(<<CallOf(queue[i])>>)
        ELSE UNCHANGED <<disp, trace>>
  /\ UNCHANGED <<store, now, nextId, net, netChanges, isSyncing, passes, clients,
                 clientCalls, listening, aux>>

\* ------------------------------------------------------ conflict resolution
\* JSON values: numbers, null, undefined, arrays of numbers and plain objects.
\* An object maps each key to a number, 0 standing for a key it does not have.
Keys == {"a", "b"}

IndexKeys == {ToString(i) : i \in 0..(MaxLen - 1)}

AllKeys == Keys \cup IndexKeys

NoKeys == [k \in AllKeys |-> 0]

Value(t, p, a, o) == [t |-> t, p |-> p, a |-> a, o |-> o]

Prim(v) == Value("prim", v, <<>>, NoKeys)

Null == Value("null", 0, <<>>, NoKeys)

Undefined == Value("undef", 0, <<>>, NoKeys)

Arr(a) == Value("arr", 0, a, NoKeys)

Obj(o) == Value("obj", 0, <<>>, o)

SeqsUpTo(S, n) == UNION {[1..m -> S] : m \in 0..n}

Values ==
  {Prim(v) : v \in 1..MaxVal} \cup {Null, Undefined}
    \cup {Arr(a) : a \in SeqsUpTo(1..MaxVal, MaxLen)}
    \cup {Obj([k \in AllKeys |-> IF k \in Keys THEN g[k] ELSE 0]) : g \in [Keys -> 0..MaxVal]}

Strategies == {"serverWins", "clientWins", "merge", "manual", "omitted", "other"}

\* typeof
TypeOf(x) ==
  CASE x.t \in {"null", "arr", "obj"} -> "object"
    [] x.t = "undef" -> "undefined"
    [] OTHER -> "number"

\* Array.isArray
IsArray(x) == x.t = "arr"

\* combined.indexOf(item), counted from 1; 0 when absent
IndexOf(combined, item) ==
  IF \E i \in 1..Len(combined) : combined[i] = item
  THEN CHOOSE i \in 1..Len(combined) :
         combined[i] = item /\ \A j \in 1..(i - 1) : combined[j] # item
  ELSE 0

\* combined.filter((item, index) => combined.indexOf(item) === index)
RECURSIVE FilterFirst(_, _)
FilterFirst(combined, n) ==
  IF n = 0 THEN <<>>
  ELSE IF IndexOf(combined, combined[n]) = n
       THEN Append(FilterFirst(combined, n - 1), combined[n])
       ELSE FilterFirst(combined, n - 1)

\* { ...target, ...x }
Spread(target, x) ==
  CASE x.t = "obj" -> [k \in AllKeys |-> IF x.o[k] # 0 THEN x.o[k] ELSE target[k]]
    [] x.t = "arr" -> [k \in AllKeys |->
                         IF \E i \in 1..Len(x.a) : ToString(i - 1) = k
                         THEN x.a[CHOOSE i \in 1..Len(x.a) : ToString(i - 1) = k]
                         ELSE target[k]]
    [] OTHER -> target

\* mergeData
MergeData(localData, serverData) ==
  IF IsArray(localData) /\ IsArray(serverData)
  THEN Arr(FilterFirst(localData.a \o serverData.a, Len(localData.a) + Len(serverData.a)))
  ELSE IF TypeOf(localData) = "object" /\ TypeOf(serverData) = "object"
       THEN Obj(Spread(Spread(NoKeys, serverData), localData))
       ELSE serverData

\* what resolveConflicts returns: a value, or both versions for 'manual'
Returned(kind, val, other) == [kind |-> kind, val |-> val, other |-> other]

\* the switch of resolveConflicts; an omitted strategy is 'serverWins'
ResolveConflictsResult(localData, serverData, strategy) ==
  LET s == IF strategy = "omitted" THEN "serverWins" ELSE strategy
  IN CASE s = "serverWins" -> Returned("value", serverData, Undefined)
       [] s = "clientWins" -> Returned("value", localData, Undefined)
       [] s = "merge"      -> Returned("value", MergeData(localData, serverData), Undefined)
       [] s = "manual"     -> Returned("both", localData, serverData)
       [] OTHER            -> Returned("value", serverData, Undefined)

Conflict(called, l, s, strategy, result) ==
  [called |-> called, local |-> l, server |-> s, strategy |-> strategy, result |-> result]

\* no call is made
NoConflict == Conflict(TRUE, Undefined, Undefined, "omitted", Returned("value", Undefined, Undefined))

NoResult == Returned("value", Undefined, Undefined)

\* a resolveConflicts call about to be made
Calling(localData, serverData, strategy) ==
  Conflict(FALSE, localData, serverData, strategy, NoResult)

\* resolveConflicts: conflictDetected is emitted, then the strategy decides
ResolveConflicts ==
  /\ ~conflict.called
  /\ conflict' = [conflict EXCEPT
        !.called = TRUE,
        !.result = ResolveConflictsResult(conflict.local, conflict.server,
                                          conflict.strategy)]
  /\ Observe(<<EventEntry("conflictDetected", 0)>>)
  /\ UNCHANGED <<engine, listening, cache, rest>>

\* ------------------------------------------------------------ record store
\* the AsyncStorage keys in use: the sync queue's and the cache's data type
QueueKey == "@teachlink_sync_queue"

DataType == "courses"

StoreKeys == {QueueKey, DataType}

\* the value under the data-type key: none, or a dictionary of items
Blob(has, items) == [has |-> has, items |-> items]

NoBlob == Blob(FALSE, <<>>)

\* what is in memory and in storage
Snapshot(d, b, q) == [data |-> d, blob |-> b, store |-> q]

\* a settled call: its arguments, what it met and how it ended
Call(kind, id, auto, sawOnline, rejected, enqFailed, caught, errSaved, threw, err, before, after, syncing) ==
  [kind |-> kind, id |-> id, auto |-> auto, sawOnline |-> sawOnline,
   rejected |-> rejected, enqFailed |-> enqFailed, caught |-> caught,
   errSaved |-> errSaved, threw |-> threw, err |-> err,
   before |-> before, after |-> after, syncing |-> syncing]

NoError == [isError |-> FALSE, message |-> ""]

NoCall ==
  Call("none", "", FALSE, FALSE, FALSE, FALSE, NoError, FALSE, FALSE, NoError,
       Snapshot(<<>>, NoBlob, <<>>), Snapshot(<<>>, NoBlob, <<>>), FALSE)

\* the values AsyncStorage rejects with: an Error, or something else
Rejections ==
  { [isError |-> TRUE, message |-> "storage full"],
    [isError |-> FALSE, message |-> "rejected"] }

Swallows(rejected) == FALSE

\* the catch of remove and of clearAll: the error is logged and thrown again
Rethrows(rejected) == rejected

\* the hook's variables that the record store leaves alone
hook == <<data, online, cacheSyncing, tasks, effectDue, autoSync, cacheCalls,
          callSeq, autoSyncs, wentOnline, userCalls, offline>>

\* OfflineStorage.remove(key): AsyncStorage.removeItem, whose rejection is
\* logged and thrown to the caller
StoreRemove(key, ok, e) ==
  /\ CanCall
  /\ Spend(ok)
  /\ store' = (IF ok /\ key = QueueKey THEN <<>> ELSE store)
  /\ blob' = (IF ok /\ key = DataType THEN NoBlob ELSE blob)
  /\ clientCalls' = clientCalls - 1
  /\ lastCall' = Call("remove", key, FALSE, FALSE, ~ok, FALSE,
                      IF ok THEN NoError ELSE e, FALSE, Rethrows(~ok),
                      IF Rethrows(~ok) THEN e ELSE NoError,
                      Snapshot(data, blob, store), Snapshot(data, blob', store'),
                      cacheSyncing)
  /\ UNCHANGED <<now, nextId, net, netChanges, isSyncing, passes, disp, timers,
                 clients, listening, trace, conflict, hook, rest>>

\* OfflineStorage.clearAll(): AsyncStorage.clear, whose rejection is logged and
\* thrown to the caller
StoreClearAll(ok, e) ==
  /\ CanCall
  /\ Spend(ok)
  /\ store' = (IF ok THEN <<>> ELSE store)
  /\ blob' = (IF ok THEN NoBlob ELSE blob)
  /\ clientCalls' = clientCalls - 1
  /\ lastCall' = Call("clearAll", "", FALSE, FALSE, ~ok, FALSE,
                      IF ok THEN NoError ELSE e, FALSE, Rethrows(~ok),
                      IF Rethrows(~ok) THEN e ELSE NoError,
                      Snapshot(data, blob, store), Snapshot(data, blob', store'),
                      cacheSyncing)
  /\ UNCHANGED <<now, nextId, net, netChanges, isSyncing, passes, disp, timers,
                 clients, listening, trace, conflict, hook, rest>>

\* --------------------------------------------------------- offline data cache
\* record ids the user interface uses (no integer-like keys: Object.keys lists
\* them in insertion order)
RecordIds == {"a", "b"}

\* a record's payload: an object with the keys "a" and "b"
Fields(a, b) == Obj([k \in AllKeys |-> IF k = "a" THEN a ELSE IF k = "b" THEN b ELSE 0])

\* the payloads given to addItem and the partial payloads given to updateItem
NewData == {Fields(1, 1)}

Partials == {Fields(0, 2)}

NoMessage == "<undefined>"

\* OfflineDataItem
Item(id, d, status, lastModified, syncAttempts, errorMessage) ==
  [id |-> id, data |-> d, status |-> status, lastModified |-> lastModified,
   syncAttempts |-> syncAttempts, errorMessage |-> errorMessage]

\* Object.keys(data)
ObjectKeys(dict) == [i \in 1..Len(dict) |-> dict[i].id]

\* { ...data, [id]: item }
Put(dict, item) ==
  IF FindIndex(dict, item.id) # 0
  THEN [dict EXCEPT ![FindIndex(dict, item.id)] = item]
  ELSE Append(dict, item)

\* delete updatedData[id]
Without(dict, id) == SelectSeq(dict, LAMBDA item : item.id # id)

\* getItemsByStatus
GetItemsByStatus(dict, status) ==
  LET found == SelectSeq(dict, LAMBDA item : item.status = status)
  IN [i \in 1..Len(found) |-> found[i].data]

\* `/${dataType}/${id}`
Endpoint(id) == "/" \o DataType \o "/" \o id

OpInput(type, id, d, priority) ==
  [type |-> type, endpoint |-> Endpoint(id), data |-> d, priority |-> priority]

NoInput == OpInput("READ", "", Undefined, "low")

\* error instanceof Error ? error.message : 'Unknown error'
MessageOf(e) == IF e.isError THEN e.message ELSE "Unknown error"

\* a call of one of the hook's callbacks, suspended at an await: the closure's
\* data and isOnline, the dictionary it is about to save, the operation it is
\* about to enqueue, the syncAll awaiting it (0: none) and, for a syncAll, the
\* number of syncItem calls it is waiting for
Task(kind, pc, id, parent, snap, sawOnline, save, inp, wq, opId, err, enqFailed, rejected, waiting, auto, before) ==
  [kind |-> kind, pc |-> pc, id |-> id, parent |-> parent, snap |-> snap,
   sawOnline |-> sawOnline, save |-> save, inp |-> inp, wq |-> wq, opId |-> opId,
   err |-> err, enqFailed |-> enqFailed, rejected |-> rejected,
   waiting |-> waiting, auto |-> auto, before |-> before]

Mutations == {"addItem", "updateItem", "deleteItem"}

CanCallCache == cacheCalls > 0

\* what the driver and the other callers of the queue own
beside == <<now, net, netChanges, isSyncing, passes, disp, timers, clients,
            clientCalls, listening, trace, conflict, rest>>

\* a callback returns or throws without having awaited anything
Returns(kind, id, threw, e) ==
  lastCall' = Call(kind, id, FALSE, online, FALSE, FALSE, e, FALSE, threw, e,
                   Snapshot(data, blob, store), Snapshot(data, blob, store),
                   cacheSyncing)

\* addItem, updateItem or deleteItem up to the await in saveData
Mutate(kind, id, updatedData, inp, type) ==
  /\ tasks' = tasks (+) One(Task(kind, "save", id, 0, data, online, updatedData, inp,
                                 <<>>, 0, NoError, FALSE, FALSE, 0, FALSE,
                                 Snapshot(data, blob, store)))
  /\ cacheCalls' = cacheCalls - 1
  /\ userCalls' = userCalls + 1
  /\ offline' = (IF online \/ updatedData = data THEN offline
                 ELSE offline \cup {<<type, id>>})
  /\ UNCHANGED <<store, nextId, faults, blob, data, online, cacheSyncing,
                 effectDue, autoSync, callSeq, autoSyncs, wentOnline, lastCall,
                 beside>>

\* addItem(id, itemData)
AddItem(id, itemData) ==
  /\ CanCallCache
  /\ Mutate("addItem", id,
            Put(data, Item(id, itemData, "pending", now, 0, NoMessage)),
            OpInput("CREATE", id, itemData, "high"), "CREATE")

UpdateAccepts(index) == FALSE

\* updateItem's test of data[id]: whether it throws
UpdateThrows(index) == index = 0

\* updateItem(id, itemData): an unknown id is an error, thrown again by the catch
UpdateItem(id, itemData) ==
  /\ CanCallCache
  /\ IF FindIndex(data, id) = 0
     THEN /\ Returns("updateItem", id, UpdateThrows(FindIndex(data, id)),
                     [isError |-> TRUE, message |-> "not found"])
          /\ cacheCalls' = cacheCalls - 1
          /\ userCalls' = userCalls + 1
          /\ UNCHANGED <<store, nextId, faults, blob, data, online, cacheSyncing,
                         tasks, effectDue, autoSync, callSeq, autoSyncs,
                         wentOnline, offline, beside>>
     ELSE LET existingItem == data[FindIndex(data, id)]
              updatedItem ==
                [existingItem EXCEPT
                   !.data = Obj(Spread(Spread(NoKeys, existingItem.data), itemData)),
                   !.status = "pending", !.lastModified = now, !.syncAttempts = 0]
          IN Mutate("updateItem", id, Put(data, updatedItem),
                    OpInput("UPDATE", id, updatedItem.data, "medium"), "UPDATE")

\* deleteItem(id)
DeleteItem(id) ==
  /\ CanCallCache
  /\ Mutate("deleteItem", id, Without(data, id),
            OpInput("DELETE", id, Undefined, "medium"), "DELETE")

SyncedItemKeepsAttempts(item) ==
  [item EXCEPT !.status = "synced", !.errorMessage = NoMessage]

\* the item markAsSynced saves
SyncedItem(item) ==
  [item EXCEPT !.status = "synced", !.syncAttempts = 0, !.errorMessage = NoMessage]

\* markAsSynced(id): nothing for an unknown id, else up to the await in saveData
MarkAsSynced(id) ==
  /\ CanCallCache
  /\ cacheCalls' = cacheCalls - 1
  /\ IF FindIndex(data, id) = 0
     THEN /\ Returns("markAsSynced", id, FALSE, NoError)
          /\ tasks' = tasks
     ELSE LET updatedItem == SyncedItem(data[FindIndex(data, id)])
          IN /\ tasks' = tasks (+) One(Task("markAsSynced", "save", id, 0, data, online,
                                            Put(data, updatedItem), NoInput, <<>>, 0,
                                            NoError, FALSE, FALSE, 0, FALSE,
                                            Snapshot(data, blob, store)))
             /\ lastCall' = lastCall
  /\ UNCHANGED <<store, nextId, faults, blob, data, online, cacheSyncing,
                 effectDue, autoSync, callSeq, autoSyncs, wentOnline, userCalls,
                 offline, beside>>

\* a syncItem(id) call on the closure's data, up to the await in addToSyncQueue
SyncItemTask(id, parent, snap, auto) ==
  Task("syncItem", "enq_read", id, parent, snap, online, snap,
       OpInput("UPDATE", id, snap[FindIndex(snap, id)].data, "high"),
       <<>>, 0, NoError, FALSE, FALSE, 0, auto, Snapshot(data, blob, store))

\* syncItem(id) called by the user interface: nothing for an unknown id
SyncItem(id) ==
  /\ CanCallCache
  /\ cacheCalls' = cacheCalls - 1
  /\ IF FindIndex(data, id) = 0
     THEN /\ Returns("syncItem", id, FALSE, NoError)
          /\ UNCHANGED <<tasks, cacheSyncing>>
     ELSE /\ tasks' = tasks (+) One(SyncItemTask(id, 0, data, FALSE))
          /\ cacheSyncing' = TRUE
          /\ lastCall' = lastCall
  /\ UNCHANGED <<store, nextId, faults, blob, data, online, effectDue, autoSync,
                 callSeq, autoSyncs, wentOnline, userCalls, offline, beside>>

\* the ids syncAll passes to syncItem: one key of the dictionary per pending
\* item, Object.keys(data)[index] for the item's index among the pending ones
SyncAllIds(dict) ==
  [index \in 1..Len(GetItemsByStatus(dict, "pending")) |-> ObjectKeys(dict)[index]]

\* syncAll up to its await of Promise.all: every syncItem has run up to its
\* first await; without pending items it is over
StartSyncAll(auto) ==
  LET ids == SyncAllIds(data)
      n == callSeq + 1
  IN /\ callSeq' = n
     /\ IF Len(ids) = 0
        THEN /\ tasks' = tasks
             /\ cacheSyncing' = FALSE
             /\ lastCall' = Call("syncAll", "", auto, online, FALSE, FALSE, NoError, FALSE,
                                 FALSE, NoError,
                                 Snapshot(data, blob, store), Snapshot(data, blob, store),
                                 FALSE)
        ELSE /\ tasks' = tasks
                  (+) SetToBag({SyncItemTask(ids[i], n, data, auto) : i \in 1..Len(ids)})
                  (+) One(Task("syncAll", "all", "", n, data, online, data, NoInput, <<>>,
                               0, NoError, FALSE, FALSE, Len(ids), auto,
                               Snapshot(data, blob, store)))
             /\ cacheSyncing' = TRUE
             /\ lastCall' = lastCall

\* syncAll() called by the user interface
SyncAll ==
  /\ CanCallCache
  /\ cacheCalls' = cacheCalls - 1
  /\ StartSyncAll(FALSE)
  /\ UNCHANGED <<store, nextId, faults, blob, data, online, effectDue, autoSync,
                 autoSyncs, wentOnline, userCalls, offline, beside>>

\* the condition under which the auto-sync effect calls syncAll
AutoSyncFires ==
  /\ autoSync /\ online /\ Len(ObjectKeys(data)) > 0
  /\ Len(GetItemsByStatus(data, "pending")) > 0

\* the auto-sync effect runs after a render in which isOnline or data changed;
\* its syncAll is not awaited and a rejection of it is logged
AutoSyncEffect ==
  /\ effectDue
  /\ effectDue' = FALSE
  /\ IF AutoSyncFires
     THEN /\ autoSyncs < MaxAutoSyncs
          /\ autoSyncs' = autoSyncs + 1
          /\ StartSyncAll(TRUE)
     ELSE UNCHANGED <<tasks, cacheSyncing, lastCall, callSeq, autoSyncs>>
  /\ UNCHANGED <<store, nextId, faults, blob, data, online, autoSync, cacheCalls,
                 wentOnline, userCalls, offline, beside>>

\* what a settled call has seen
Settlement(t, threw, e) ==
  Call(t.kind, t.id, t.auto, t.sawOnline, t.rejected, t.enqFailed, t.err,
       t.pc = "err_saved", threw, e,
       t.before, Snapshot(data', blob', store'), FALSE)

\* the call t settles, seen as u. A syncItem started by a syncAll settles its
\* Promise.all too when it is the first to reject or the last to resolve; the
\* finally blocks of syncItem and syncAll set isSyncing to false
Settle(t, u, threw, e) ==
  LET others == tasks (-) One(t)
      parents == {p \in BagToSet(others) : p.kind = "syncAll" /\ p.parent = t.parent}
  IN IF t.parent = 0
     THEN /\ tasks' = others
          /\ lastCall' = [Settlement(u, threw, e) EXCEPT
                            !.syncing = IF t.kind = "syncItem" THEN FALSE ELSE cacheSyncing]
          /\ cacheSyncing' = (IF t.kind = "syncItem" THEN FALSE ELSE cacheSyncing)
     ELSE /\ cacheSyncing' = FALSE
          /\ IF parents = {}
             THEN /\ tasks' = others
                  /\ lastCall' = lastCall
             ELSE LET p == CHOOSE p \in parents : TRUE
                  IN IF threw \/ p.waiting = 1
                     THEN /\ tasks' = others (-) One(p)
                          /\ lastCall' = Settlement(p, threw, e)
                     ELSE /\ tasks' = (others (-) One(p))
                                        (+) One([p EXCEPT !.waiting = @ - 1])
                          /\ lastCall' = lastCall

\* a task moves on to its next await
Continue(t, u) ==
  /\ tasks' = (tasks (-) One(t)) (+) One(u)
  /\ UNCHANGED <<cacheSyncing, lastCall>>

ErrorItemSameAttempts(t, e) ==
  LET item == t.snap[FindIndex(t.snap, t.id)]
  IN [item EXCEPT !.status = "error", !.errorMessage = MessageOf(e)]

\* the item syncItem saves when addToSyncQueue or saveData has thrown
ErrorItem(t, e) ==
  LET item == t.snap[FindIndex(t.snap, t.id)]
  IN [item EXCEPT !.status = "error", !.errorMessage = MessageOf(e),
                  !.syncAttempts = @ + 1]

\* the item syncItem saves after addToSyncQueue
AttemptedItem(t) ==
  LET item == t.snap[FindIndex(t.snap, t.id)]
  IN [item EXCEPT !.status = "pending", !.syncAttempts = @ + 1]

EnqueuesAlways(t) == t.kind \in Mutations

\* addItem, updateItem and deleteItem go on to addToSyncQueue: if (isOnline)
EnqueuesAfterSave(t) == t.kind \in Mutations /\ t.sawOnline

\* saveData settles: store() has written and setData(newData) is called, or
\* the rejection is logged and thrown. Then addItem, updateItem and deleteItem
\* enqueue when the closure's isOnline is true; syncItem's catch saves the
\* item with its error
SaveData(t, ok, e) ==
  /\ BagIn(t, tasks) /\ t.pc = "save"
  /\ Spend(ok)
  /\ blob' = (IF ok THEN Blob(TRUE, t.save) ELSE blob)
  /\ data' = (IF ok THEN t.save ELSE data)
  /\ effectDue' = (ok \/ effectDue)
  /\ store' = store
  /\ IF ok
     THEN IF EnqueuesAfterSave(t)
          THEN Continue(t, [t EXCEPT !.pc = "enq_read"])
          ELSE Settle(t, t, FALSE, NoError)
     ELSE IF t.kind = "syncItem"
          THEN Continue(t, [t EXCEPT !.pc = "save_err", !.err = e, !.rejected = TRUE,
                                     !.save = Put(t.snap, ErrorItem(t, e))])
          ELSE Settle(t, [t EXCEPT !.rejected = TRUE], TRUE, e)
  /\ UNCHANGED <<nextId, online, autoSync, cacheCalls, callSeq, autoSyncs,
                 wentOnline, userCalls, offline, beside>>

\* the saveData in syncItem's catch settles; syncItem throws the error caught,
\* or the one this saveData threw
SaveError(t, ok, e) ==
  /\ BagIn(t, tasks) /\ t.pc = "save_err"
  /\ Spend(ok)
  /\ blob' = (IF ok THEN Blob(TRUE, t.save) ELSE blob)
  /\ data' = (IF ok THEN t.save ELSE data)
  /\ effectDue' = (ok \/ effectDue)
  /\ store' = store
  /\ Settle(t, [t EXCEPT !.rejected = TRUE,
                          !.pc = IF ok THEN "err_saved" ELSE "save_err"],
            TRUE, IF ok THEN t.err ELSE e)
  /\ UNCHANGED <<nextId, online, autoSync, cacheCalls, callSeq, autoSyncs,
                 wentOnline, userCalls, offline, beside>>

\* addToSyncQueue called by the hook, up to its await of store()
EnqueueRead(t, ok) ==
  /\ BagIn(t, tasks) /\ t.pc = "enq_read"
  /\ nextId <= MaxOps
  /\ Spend(ok)
  /\ Continue(t, [t EXCEPT !.pc = "enq_write", !.opId = nextId,
                           !.rejected = @ \/ ~ok,
                           !.wq = SortQueue(Append(GetSyncQueue(ok),
                                                   MkOp(nextId, t.inp, now, 0)))])
  /\ nextId' = nextId + 1
  /\ UNCHANGED <<store, blob, data, online, effectDue, autoSync, cacheCalls,
                 callSeq, autoSyncs, wentOnline, userCalls, offline, beside>>

\* its store() settles: the queue is written, or the rejection is thrown.
\* syncItem then saves the item, with one more attempt or with the error
EnqueueWrite(t, ok, e) ==
  /\ BagIn(t, tasks) /\ t.pc = "enq_write"
  /\ Spend(ok)
  /\ store' = (IF ok THEN t.wq ELSE store)
  /\ UNCHANGED <<blob, data>>
  /\ IF t.kind = "syncItem"
     THEN IF ok
          THEN Continue(t, [t EXCEPT !.pc = "save", !.save = Put(t.snap, AttemptedItem(t))])
          ELSE Continue(t, [t EXCEPT !.pc = "save_err", !.err = e, !.rejected = TRUE,
                                     !.enqFailed = TRUE,
                                     !.save = Put(t.snap, ErrorItem(t, e))])
     ELSE IF ok
          THEN Settle(t, t, FALSE, NoError)
          ELSE Settle(t, [t EXCEPT !.rejected = TRUE, !.enqFailed = TRUE], TRUE, e)
  /\ UNCHANGED <<nextId, online, effectDue, autoSync, cacheCalls, callSeq,
                 autoSyncs, wentOnline, userCalls, offline, beside>>

\* useNetworkStatus: isConnected ?? false, isInternetReachable ?? false; a
\* throw of getNetworkStateAsync counts as offline
CheckNetworkStatus(n) ==
  IF n.throws THEN FALSE ELSE OrFalse(n.isConnected) /\ OrFalse(n.isInternetReachable)

\* the periodic checkNetworkStatus settles and the hook renders with its result
NetworkPoll ==
  /\ online # CheckNetworkStatus(net)
  /\ online' = CheckNetworkStatus(net)
  /\ effectDue' = TRUE
  /\ wentOnline' = (IF online' THEN wentOnline + 1 ELSE wentOnline)
  /\ UNCHANGED <<store, nextId, faults, blob, data, cacheSyncing, tasks, autoSync,
                 cacheCalls, callSeq, autoSyncs, userCalls, offline, lastCall,
                 beside>>

\* --------------------------------------------------------- the periodic timer
\* a call of startAutoSync or stopAutoSync, or a run of the interval callback,
\* and whether a timer was installed then
Auto(kind) == [kind |-> kind, n |-> lastAuto.n + 1, was |-> intervals # {}]

CanCallAuto == lastAuto.n < MaxAutoCalls

NeverRunning(id) == FALSE

\* startAutoSync's test of syncIntervalId
AlreadyRunning(id) == id # 0

\* startAutoSync: a warning when the timer is installed, else setInterval and
\* syncStarted
StartAutoSync ==
  /\ CanCallAuto
  /\ lastAuto' = Auto("start")
  /\ IF AlreadyRunning(syncIntervalId)
     THEN UNCHANGED <<syncIntervalId, intervals, timerIds, trace>>
     ELSE /\ timerIds' = timerIds + 1
          /\ syncIntervalId' = timerIds + 1
          /\ intervals' = intervals \cup {timerIds + 1}
          /\ Observe(<<EventEntry("syncStarted", 0)>>)
  /\ UNCHANGED <<engine, listening, conflict, cache, bus, notes>>

NoRetries(ts) == EmptyBag

\* the retry timeouts after stopAutoSync: it clears the interval and nothing else
PendingRetries(ts) == ts

\* stopAutoSync: clearInterval and syncIntervalId = null
StopAutoSync ==
  /\ CanCallAuto
  /\ lastAuto' = Auto("stop")
  /\ IF syncIntervalId # 0
     THEN /\ intervals' = intervals \ {syncIntervalId}
          /\ syncIntervalId' = 0
     ELSE UNCHANGED <<syncIntervalId, intervals>>
  /\ timers' = PendingRetries(timers)
  /\ UNCHANGED <<store, now, nextId, faults, net, netChanges, isSyncing, passes,
                 disp, clients, clientCalls, listening, trace, conflict, cache,
                 bus, notes, timerIds>>

\* the callback of an installed interval timer runs: syncPendingOperations up
\* to its first await
IntervalFire(id, p) ==
  /\ id \in intervals
  /\ PassBegin(p)
  /\ lastAuto' = Auto("tick")
  /\ UNCHANGED <<store, now, nextId, faults, net, netChanges, isSyncing, disp,
                 timers, clients, clientCalls, listening, trace, conflict, cache,
                 bus, notes, syncIntervalId, intervals, timerIds>>

\* ------------------------------------------------------------ the listeners
\* what a listener does when it is called: it returns, it throws, or it calls
\* removeEventListener on a listener (itself perhaps) and returns
ListenerActs == {"returns", "throws", "removes"}

ListenerNames == 1..MaxListeners

Listeners ==
  { [name |-> n, act |-> a, target |-> t] :
      n \in ListenerNames, a \in ListenerActs, t \in ListenerNames }

Names(arr) == [i \in 1..Len(arr) |-> arr[i].name]

\* eventListeners.indexOf(listener): the first index, 0 when absent
IndexOfListener(arr, name) ==
  IF \E i \in 1..Len(arr) : arr[i].name = name
  THEN CHOOSE i \in 1..Len(arr) :
         arr[i].name = name /\ \A j \in 1..(i - 1) : arr[j].name # name
  ELSE 0

\* eventListeners.splice(index, 1) when index > -1
Splice(arr, name) ==
  LET i == IndexOfListener(arr, name)
  IN IF i = 0 THEN arr ELSE SubSeq(arr, 1, i - 1) \o SubSeq(arr, i + 1, Len(arr))

\* the try / catch around listener(event): the exception is logged
Propagates(threw) == FALSE

\* Array.prototype.forEach on the live array: the indices below the length the
\* array had when the broadcast started are visited in order, each one that is
\* still in the array when its turn comes
RECURSIVE ForEach(_, _, _, _)
ForEach(arr, k, len, called) ==
  IF k > len \/ k > Len(arr)
  THEN [listeners |-> arr, called |-> called, escaped |-> FALSE]
  ELSE LET l == arr[k]
       IN IF l.act = "throws" /\ Propagates(TRUE)
          THEN [listeners |-> arr, called |-> Append(called, l.name), escaped |-> TRUE]
          ELSE ForEach(IF l.act = "removes" THEN Splice(arr, l.target) ELSE arr,
                       k + 1, len, Append(called, l.name))

\* addEventListener with a function that is not registered yet
AddEventListener(l) ==
  /\ Len(eventListeners) < MaxListeners
  /\ IndexOfListener(eventListeners, l.name) = 0
  /\ eventListeners' = Append(eventListeners, l)
  /\ UNCHANGED <<engine, listening, trace, conflict, cache, emitted, sched, notes>>

\* removeEventListener
RemoveEventListener(name) ==
  /\ eventListeners' = Splice(eventListeners, name)
  /\ UNCHANGED <<engine, listening, trace, conflict, cache, emitted, sched, notes>>

\* emitEvent: the listeners run to completion before it returns
EmitEvent ==
  /\ eventListeners # <<>>
  /\ LET r == ForEach(eventListeners, 1, Len(eventListeners), <<>>)
     IN /\ eventListeners' = r.listeners
        /\ emitted' = [before |-> Names(eventListeners), called |-> r.called,
                       escaped |-> r.escaped]
  /\ UNCHANGED <<engine, listening, trace, conflict, cache, sched, notes>>

\* ------------------------------------------------------ notification store
Notification(id, read) == [id |-> id, read |-> read]

\* notifications.find(n => n.id === notificationId): its index, 0 when absent
FindNotification(list, id) ==
  IF \E i \in 1..Len(list) : list[i].id = id
  THEN CHOOSE i \in 1..Len(list) :
         list[i].id = id /\ \A j \in 1..(i - 1) : list[j].id # id
  ELSE 0

\* Math.max(0, n)
Max0(n) == IF n < 0 THEN 0 ELSE n

\* the ids the user interface passes: the newest notification, the oldest one
\* stored, and one that is not stored
NoteTargets ==
  {0} \cup (IF notifications = <<>> THEN {}
            ELSE {notifications[1].id, notifications[Len(notifications)].id})

CanCallNotes == noteCalls < MaxNoteCalls

\* addNotification: the new notification in front, the first KeepLast kept
AddNotification ==
  /\ noteIds < MaxAdds
  /\ noteIds' = noteIds + 1
  /\ notifications' =
       LET all == <<Notification(noteIds + 1, FALSE)>> \o notifications
       IN SubSeq(all, 1, Min(Len(all), KeepLast))
  /\ unreadCount' = unreadCount + 1
  /\ UNCHANGED <<engine, listening, trace, conflict, cache, bus, sched, noteCalls>>

\* markAsRead: nothing for an unknown or a read notification
MarkAsRead(id) ==
  /\ CanCallNotes
  /\ noteCalls' = noteCalls + 1
  /\ LET i == FindNotification(notifications, id)
     IN IF i = 0 \/ notifications[i].read
        THEN UNCHANGED <<notifications, unreadCount>>
        ELSE /\ notifications' =
                  [k \in 1..Len(notifications) |->
                     IF notifications[k].id = id
                     THEN [notifications[k] EXCEPT !.read = TRUE]
                     ELSE notifications[k]]
             /\ unreadCount' = Max0(unreadCount - 1)
  /\ UNCHANGED <<engine, listening, trace, conflict, cache, bus, sched, noteIds>>

\* markAllAsRead
MarkAllAsRead ==
  /\ CanCallNotes
  /\ noteCalls' = noteCalls + 1
  /\ notifications' =
       [k \in 1..Len(notifications) |-> [notifications[k] EXCEPT !.read = TRUE]]
  /\ unreadCount' = 0
  /\ UNCHANGED <<engine, listening, trace, conflict, cache, bus, sched, noteIds>>

\* removeNotification
RemoveNotification(id) ==
  /\ CanCallNotes
  /\ noteCalls' = noteCalls + 1
  /\ LET i == FindNotification(notifications, id)
         wasUnread == i # 0 /\ ~notifications[i].read
     IN /\ notifications' = SelectSeq(notifications, LAMBDA n : n.id # id)
        /\ unreadCount' = (IF wasUnread THEN Max0(unreadCount - 1) ELSE unreadCount)
  /\ UNCHANGED <<engine, listening, trace, conflict, cache, bus, sched, noteIds>>

\* clearAllNotifications
ClearAllNotifications ==
  /\ CanCallNotes
  /\ noteCalls' = noteCalls + 1
  /\ notifications' = <<>>
  /\ unreadCount' = 0
  /\ UNCHANGED <<engine, listening, trace, conflict, cache, bus, sched, noteIds>>

\* ------------------------------------------------------------------ states
\* queues a previous session may have persisted
InitRetries == {MAX_RETRIES - 1}

InitQueues ==
  {<<>>} \cup {<<MkOp(1, inp, 0, r)>> : inp \in AddInputs, r \in InitRetries}

Online == [isConnected |-> "true", isInternetReachable |-> "true", throws |-> FALSE]

InitDriver ==
  /\ now = 0
  /\ isSyncing = FALSE
  /\ passes = [p \in 1..MaxPasses |-> Pass("idle", <<>>, 0)]
  /\ disp = EmptyBag
  /\ timers = EmptyBag
  /\ clients = EmptyBag
  /\ netChanges = 0
  /\ trace = <<>>

\* no listener registered, nothing emitted
NoBroadcast == [before |-> <<>>, called |-> <<>>, escaped |-> FALSE]

InitBus ==
  /\ eventListeners = <<>>
  /\ emitted = NoBroadcast

\* no periodic timer
NoAuto == [kind |-> "none", n |-> 0, was |-> FALSE]

InitSched ==
  /\ syncIntervalId = 0
  /\ intervals = {}
  /\ timerIds = 0
  /\ lastAuto = NoAuto

\* the notification store before anything was received
InitNotes ==
  /\ notifications = <<>>
  /\ unreadCount = 0
  /\ noteIds = 0
  /\ noteCalls = 0

InitCommon == InitDriver /\ InitBus /\ InitSched /\ InitNotes

\* the hook is not mounted: nothing cached, no call to come
NoCache ==
  /\ blob = NoBlob
  /\ data = <<>>
  /\ online = FALSE
  /\ cacheSyncing = FALSE
  /\ tasks = EmptyBag
  /\ effectDue = FALSE
  /\ autoSync = FALSE
  /\ cacheCalls = 0
  /\ callSeq = 0
  /\ autoSyncs = 0
  /\ wentOnline = 0
  /\ userCalls = 0
  /\ offline = {}
  /\ lastCall = NoCall

\* the engine with every interleaving of its suspended handlers
Init ==
  /\ InitCommon
  /\ store \in InitQueues
  /\ nextId = Len(store) + 1
  /\ faults = MaxFaults
  /\ net = Online
  /\ clientCalls = MaxClears
  /\ listening = FALSE
  /\ conflict = NoConflict
  /\ NoCache

Next ==
  \/ \E ok \in Outcomes : ClearSyncQueue(ok)
  \/ \E ok \in Outcomes : ClearFailedRead(ok)
  \/ \E c \in BagToSet(clients), ok \in Outcomes : ClearFailedRemoveRead(c, ok)
  \/ \E c \in BagToSet(clients), ok \in Outcomes : ClearFailedRemoveWrite(c, ok)
  \/ \E n \in NetStates : SetNetwork(n)
  \/ \E p \in 1..MaxPasses : PassStart(p)
  \/ \E p \in 1..MaxPasses : PassConn(p)
  \/ \E p \in 1..MaxPasses, ok \in Outcomes : PassLoad(p, ok)
  \/ \E p \in 1..MaxPasses : PassNext(p)
  \/ \E d \in BagToSet(disp) : ApiOk(d)
  \/ \E d \in BagToSet(disp) : ApiFail(d)
  \/ \E d \in BagToSet(disp), ok \in Outcomes : DispRemoveRead(d, ok)
  \/ \E d \in BagToSet(disp), ok \in Outcomes : DispRemoveWrite(d, ok)
  \/ \E d \in BagToSet(disp), ok \in Outcomes : DispIncRead(d, ok)
  \/ \E d \in BagToSet(disp), ok \in Outcomes : DispIncWrite(d, ok)
  \/ \E t \in BagToSet(timers), ok \in Outcomes : RetryFire(t, ok)

Spec == Init /\ [][Next]_vars

\* the sync queue alone, under every interleaving of the calls made on it
InitQueue ==
  /\ InitCommon
  /\ store = <<>>
  /\ nextId = 1
  /\ faults = MaxFaults
  /\ net = Online
  /\ clientCalls = MaxClientCalls
  /\ listening = FALSE
  /\ conflict = NoConflict
  /\ NoCache

NextQueue ==
  \/ \E inp \in AddInputs, ok \in Outcomes : AddRead(inp, ok)
  \/ \E c \in BagToSet(clients), ok \in Outcomes : AddWrite(c, ok)
  \/ \E id \in 0..(nextId - 1), ok \in Outcomes : RemoveRead(id, ok)
  \/ \E c \in BagToSet(clients), ok \in Outcomes : RemoveWrite(c, ok)
  \/ \E id \in 0..(nextId - 1), ok \in Outcomes : IncrementRead(id, ok)
  \/ \E c \in BagToSet(clients), ok \in Outcomes : IncrementWrite(c, ok)
  \/ \E ok \in Outcomes : ClearSyncQueue(ok)
  \/ Tick

SpecQueue == InitQueue /\ [][NextQueue]_vars

\* the sync queue under calls made one after the other
NextQueueSeq ==
  \/ \E inp \in AddInputs, ok \in Outcomes : clients = EmptyBag /\ AddRead(inp, ok)
  \/ \E c \in BagToSet(clients), ok \in Outcomes : AddWrite(c, ok)
  \/ \E id \in 0..(nextId - 1), ok \in Outcomes : clients = EmptyBag /\ RemoveRead(id, ok)
  \/ \E c \in BagToSet(clients), ok \in Outcomes : RemoveWrite(c, ok)
  \/ \E id \in 0..(nextId - 1), ok \in Outcomes : clients = EmptyBag /\ IncrementRead(id, ok)
  \/ \E c \in BagToSet(clients), ok \in Outcomes : IncrementWrite(c, ok)
  \/ \E ok \in Outcomes : clients = EmptyBag /\ ClearSyncQueue(ok)
  \/ Tick

SpecQueueSeq == InitQueue /\ [][NextQueueSeq]_vars

\* one operation, enqueued by addToSyncQueue, and a driver whose passes and
\* retry callbacks run one after the other on a storage that works
InitSeq ==
  /\ InitCommon
  /\ store \in {<<MkOp(1, inp, 0, 0)>> : inp \in AddInputs}
  /\ nextId = 2
  /\ faults = 0
  /\ net \in NetStates
  /\ clientCalls = 0
  /\ listening = TRUE
  /\ conflict = NoConflict
  /\ NoCache

NextSeq ==
  \/ \E n \in NetStates : SetNetwork(n)
  \/ \E p \in 1..MaxPasses : Quiet /\ PassStart(p)
  \/ \E p \in 1..MaxPasses : PassConn(p)
  \/ \E p \in 1..MaxPasses, ok \in Outcomes : PassLoad(p, ok)
  \/ \E p \in 1..MaxPasses : PassNext(p)
  \/ \E d \in BagToSet(disp) : ApiOk(d)
  \/ \E d \in BagToSet(disp) : ApiFail(d)
  \/ \E d \in BagToSet(disp), ok \in Outcomes : DispRemoveRead(d, ok)
  \/ \E d \in BagToSet(disp), ok \in Outcomes : DispRemoveWrite(d, ok)
  \/ \E d \in BagToSet(disp), ok \in Outcomes : DispIncRead(d, ok)
  \/ \E d \in BagToSet(disp), ok \in Outcomes : DispIncWrite(d, ok)
  \/ \E t \in BagToSet(timers), ok \in Outcomes : Quiet /\ RetryFire(t, ok)

SpecSeq == InitSeq /\ [][NextSeq]_vars

\* resolveConflicts on every pair of values and every strategy
InitResolve ==
  /\ InitCommon
  /\ store = <<>>
  /\ nextId = 1
  /\ faults = 0
  /\ net = Online
  /\ clientCalls = 0
  /\ listening = TRUE
  /\ conflict \in {Calling(l, s, strategy) :
                     l \in Values, s \in Values, strategy \in Strategies}
  /\ NoCache

NextResolve == ResolveConflicts

SpecResolve == InitResolve /\ [][NextResolve]_vars

\* the record store and the sync queue under calls made one after the other
InitStore ==
  /\ InitCommon
  /\ store = <<>>
  /\ nextId = 1
  /\ faults = MaxFaults
  /\ net = Online
  /\ clientCalls = MaxClientCalls
  /\ listening = FALSE
  /\ conflict = NoConflict
  /\ blob \in {NoBlob, Blob(TRUE, <<>>)}
  /\ data = <<>>
  /\ online = FALSE
  /\ cacheSyncing = FALSE
  /\ tasks = EmptyBag
  /\ effectDue = FALSE
  /\ autoSync = FALSE
  /\ cacheCalls = 0
  /\ callSeq = 0
  /\ autoSyncs = 0
  /\ wentOnline = 0
  /\ userCalls = 0
  /\ offline = {}
  /\ lastCall = NoCall

NextStore ==
  \/ \E inp \in AddInputs, ok \in Outcomes : clients = EmptyBag /\ AddRead(inp, ok)
  \/ \E c \in BagToSet(clients), ok \in Outcomes : AddWrite(c, ok)
  \/ \E key \in StoreKeys, ok \in Outcomes, e \in Rejections :
        clients = EmptyBag /\ StoreRemove(key, ok, e)
  \/ \E ok \in Outcomes, e \in Rejections : clients = EmptyBag /\ StoreClearAll(ok, e)

SpecStore == InitStore /\ [][NextStore]_vars

\* dictionaries a previous session may have persisted
InitDicts ==
  { <<>>,
    << Item("a", Fields(1, 1), "synced", 0, 0, NoMessage),
       Item("b", Fields(1, 1), "pending", 0, 0, NoMessage) >> }

Offline == [isConnected |-> "false", isInternetReachable |-> "null", throws |-> FALSE]

\* the hook is mounted and has loaded the persisted dictionary; the first
\* network check is still to come
InitHook ==
  /\ InitCommon
  /\ store = <<>>
  /\ nextId = 1
  /\ net \in {Online, Offline}
  /\ clientCalls = 0
  /\ conflict = NoConflict
  /\ data \in InitDicts
  /\ blob = (IF data = <<>> THEN NoBlob ELSE Blob(TRUE, data))
  /\ online = FALSE
  /\ cacheSyncing = FALSE
  /\ tasks = EmptyBag
  /\ effectDue = TRUE
  /\ autoSync \in BOOLEAN
  /\ cacheCalls = MaxCacheCalls
  /\ callSeq = 0
  /\ autoSyncs = 0
  /\ wentOnline = 0
  /\ userCalls = 0
  /\ offline = {}
  /\ lastCall = NoCall

\* the steps of the calls in flight, and the network
CacheSteps ==
  \/ \E t \in BagToSet(tasks), ok \in Outcomes, e \in Rejections : SaveData(t, ok, e)
  \/ \E t \in BagToSet(tasks), ok \in Outcomes : EnqueueRead(t, ok)
  \/ \E t \in BagToSet(tasks), ok \in Outcomes, e \in Rejections : EnqueueWrite(t, ok, e)
  \/ NetworkPoll
  \/ \E n \in {Online, Offline} : SetNetwork(n)

\* the hook on a storage that works, with every call, the auto-sync effect's
\* included, made when no other is in flight
InitCache == InitHook /\ faults = 0 /\ listening = FALSE

NextCacheSeq ==
  \/ \E id \in RecordIds, d \in NewData : tasks = EmptyBag /\ AddItem(id, d)
  \/ \E id \in RecordIds, d \in Partials : tasks = EmptyBag /\ UpdateItem(id, d)
  \/ \E id \in RecordIds : tasks = EmptyBag /\ DeleteItem(id)
  \/ \E id \in RecordIds : tasks = EmptyBag /\ MarkAsSynced(id)
  \/ \E id \in RecordIds : tasks = EmptyBag /\ SyncItem(id)
  \/ tasks = EmptyBag /\ SyncAll
  \/ tasks = EmptyBag /\ AutoSyncEffect
  \/ CacheSteps

SpecCacheSeq == InitCache /\ [][NextCacheSeq]_vars

\* syncItem on a storage that rejects some accesses
InitSyncItem == InitHook /\ faults = MaxCacheFaults /\ listening = FALSE

NextSyncItem ==
  \/ \E id \in RecordIds : tasks = EmptyBag /\ SyncItem(id)
  \/ tasks = EmptyBag /\ AutoSyncEffect
  \/ \E t \in BagToSet(tasks), ok \in Outcomes, e \in Rejections : SaveError(t, ok, e)
  \/ CacheSteps

SpecSyncItem == InitSyncItem /\ [][NextSyncItem]_vars

\* the hook and the driver on a storage that works and a remote API that
\* answers, observed: the hook's calls and the driver's passes start when
\* nothing else is in flight
InitBoth ==
  /\ InitHook /\ faults = 0 /\ listening = TRUE
  /\ data = <<>> /\ net = Online

Idle == Quiet /\ tasks = EmptyBag

NextBoth ==
  \/ \E id \in RecordIds, d \in NewData : Idle /\ AddItem(id, d)
  \/ \E id \in RecordIds, d \in Partials : Idle /\ UpdateItem(id, d)
  \/ \E id \in RecordIds : Idle /\ DeleteItem(id)
  \/ Idle /\ AutoSyncEffect
  \/ \E t \in BagToSet(tasks), ok \in Outcomes, e \in Rejections : SaveData(t, ok, e)
  \/ \E t \in BagToSet(tasks), ok \in Outcomes : EnqueueRead(t, ok)
  \/ \E t \in BagToSet(tasks), ok \in Outcomes, e \in Rejections : EnqueueWrite(t, ok, e)
  \/ NetworkPoll
  \/ \E p \in 1..MaxPasses : Idle /\ PassStart(p)
  \/ \E p \in 1..MaxPasses : PassConn(p)
  \/ \E p \in 1..MaxPasses, ok \in Outcomes : PassLoad(p, ok)
  \/ \E p \in 1..MaxPasses : PassNext(p)
  \/ \E d \in BagToSet(disp) : ApiOk(d)
  \/ \E d \in BagToSet(disp), ok \in Outcomes : DispRemoveRead(d, ok)
  \/ \E d \in BagToSet(disp), ok \in Outcomes : DispRemoveWrite(d, ok)

SpecBoth == InitBoth /\ [][NextBoth]_vars

\* the listener list under every sequence of registrations, removals and
\* broadcasts
InitEmit ==
  /\ InitCommon
  /\ store = <<>>
  /\ nextId = 1
  /\ faults = 0
  /\ net = Online
  /\ clientCalls = 0
  /\ listening = FALSE
  /\ conflict = NoConflict
  /\ NoCache

NextEmit ==
  \/ \E l \in Listeners : AddEventListener(l)
  \/ \E n \in ListenerNames : RemoveEventListener(n)
  \/ EmitEvent

SpecEmit == InitEmit /\ [][NextEmit]_vars

\* the driver with its periodic timer and manualSync on a storage that works
\* and a remote API that answers, observed
InitAuto ==
  /\ InitCommon
  /\ store \in {<<MkOp(1, inp, 0, 0)>> : inp \in AddInputs}
  /\ nextId = 2
  /\ faults = 0
  /\ net = Online
  /\ clientCalls = 0
  /\ listening = TRUE
  /\ conflict = NoConflict
  /\ NoCache

NextAuto ==
  \/ StartAutoSync
  \/ StopAutoSync
  \/ \E id \in intervals, p \in 1..MaxPasses : IntervalFire(id, p)
  \/ \E p \in 1..MaxPasses : PassStart(p)
  \/ \E p \in 1..MaxPasses : PassConn(p)
  \/ \E p \in 1..MaxPasses, ok \in Outcomes : PassLoad(p, ok)
  \/ \E p \in 1..MaxPasses : PassNext(p)
  \/ \E d \in BagToSet(disp) : ApiOk(d)
  \/ \E d \in BagToSet(disp), ok \in Outcomes : DispRemoveRead(d, ok)
  \/ \E d \in BagToSet(disp), ok \in Outcomes : DispRemoveWrite(d, ok)

SpecAuto == InitAuto /\ [][NextAuto]_vars

\* the notification store under every sequence of its calls
NextNotes ==
  \/ AddNotification
  \/ \E id \in NoteTargets : MarkAsRead(id)
  \/ MarkAllAsRead
  \/ \E id \in NoteTargets : RemoveNotification(id)
  \/ ClearAllNotifications

SpecNotes == InitEmit /\ [][NextNotes]_vars

\* a long queue left by a previous session: operations of one priority in the
\* order they were added
LongQueue(n) == [i \in 1..n |-> MkOp(i, CHOOSE inp \in AddInputs : inp.type = "CREATE", 0, 0)]

\* one pass of the driver on that queue, on a storage that works: the
\* operations of a batch run concurrently; the retry callbacks they schedule
\* are not due before the pass is over
InitBatch ==
  /\ InitCommon
  /\ store \in {LongQueue(n) : n \in (MaxQueue - 1)..MaxQueue}
  /\ nextId = Len(store) + 1
  /\ faults = 0
  /\ net = Online
  /\ clientCalls = 0
  /\ listening = FALSE
  /\ conflict = NoConflict
  /\ NoCache

NextBatch ==
  \/ PassStart(1)
  \/ \E p \in 1..MaxPasses : PassConn(p)
  \/ \E p \in 1..MaxPasses, ok \in Outcomes : PassLoad(p, ok)
  \/ \E p \in 1..MaxPasses : PassNext(p)
  \/ \E d \in BagToSet(disp) : ApiOk(d)
  \/ \E d \in BagToSet(disp) : ApiFail(d)
  \/ \E d \in BagToSet(disp), ok \in Outcomes : DispRemoveRead(d, ok)
  \/ \E d \in BagToSet(disp), ok \in Outcomes : DispRemoveWrite(d, ok)
  \/ \E d \in BagToSet(disp), ok \in Outcomes : DispIncRead(d, ok)
  \/ \E d \in BagToSet(disp), ok \in Outcomes : DispIncWrite(d, ok)

SpecBatch == InitBatch /\ [][NextBatch]_vars

\* the records of the invocations of syncPendingOperations that have returned
\* are dropped: the periodic timer calls it again and again
Forget ==
  /\ Quiet
  /\ \A p \in 1..MaxPasses : passes[p].pc # "idle"
  /\ passes' = [p \in 1..MaxPasses |-> Pass("idle", <<>>, 0)]
  /\ UNCHANGED <<store, now, nextId, faults, net, netChanges, isSyncing, disp,
                 timers, clients, clientCalls, listening, trace, aux>>

\* a queue whose first operations have failed for good, followed by a new one
StuckQueue ==
  [i \in 1..(MaxConcurrentSyncs + 1) |->
     MkOp(i, CHOOSE inp \in AddInputs : inp.type = "CREATE", 0,
          IF i <= MaxConcurrentSyncs THEN MAX_RETRIES ELSE 0)]

\* the driver with connectivity and a periodic timer that never stops, on a
\* storage that works: passes and retry callbacks start when nothing else is
\* in flight, and every step that is due is eventually taken
InitStarve ==
  /\ InitCommon
  /\ store = StuckQueue
  /\ nextId = Len(store) + 1
  /\ faults = 0
  /\ net = Online
  /\ clientCalls = 0
  /\ listening = FALSE
  /\ conflict = NoConflict
  /\ NoCache

StartsPass == \E p \in 1..MaxPasses : Quiet /\ PassStart(p)

ChecksNet == \E p \in 1..MaxPasses : PassConn(p)

LoadsQueue == \E p \in 1..MaxPasses, ok \in Outcomes : PassLoad(p, ok)

EndsBatch == \E p \in 1..MaxPasses : PassNext(p)

ApiSucceeds == \E d \in BagToSet(disp) : ApiOk(d)

ApiFails == \E d \in BagToSet(disp) : ApiFail(d)

UpdatesQueue ==
  \/ \E d \in BagToSet(disp), ok \in Outcomes : DispRemoveRead(d, ok)
  \/ \E d \in BagToSet(disp), ok \in Outcomes : DispRemoveWrite(d, ok)
  \/ \E d \in BagToSet(disp), ok \in Outcomes : DispIncRead(d, ok)
  \/ \E d \in BagToSet(disp), ok \in Outcomes : DispIncWrite(d, ok)

Retries == \E t \in BagToSet(timers), ok \in Outcomes : Quiet /\ RetryFire(t, ok)

NextStarve ==
  \/ StartsPass
  \/ Forget
  \/ ChecksNet
  \/ LoadsQueue
  \/ EndsBatch
  \/ ApiSucceeds
  \/ ApiFails
  \/ UpdatesQueue
  \/ Retries

\* the timer keeps firing, awaited storage accesses and connectivity checks
\* resolve, every remote call settles (one way or the other)
FairStarve ==
  /\ WF_vars(StartsPass)
  /\ WF_vars(Forget)
  /\ WF_vars(ChecksNet)
  /\ WF_vars(LoadsQueue)
  /\ WF_vars(EndsBatch)
  /\ WF_vars(ApiSucceeds \/ ApiFails)
  /\ WF_vars(UpdatesQueue)
  /\ WF_vars(Retries)

SpecStarve == InitStarve /\ [][NextStarve]_vars /\ FairStarve

\* two operations, one of them at its last retry, and a driver whose passes
\* and retry callbacks start when nothing else is in flight, on a storage that
\* may reject an access, observed; every step that is due is eventually taken
InitFaulty ==
  /\ InitCommon
  /\ store = [i \in 1..2 |->
                MkOp(i, CHOOSE inp \in AddInputs : inp.type = "CREATE", 0,
                     MAX_RETRIES + i - 2)]
  /\ nextId = 3
  /\ faults = MaxFaults
  /\ net = Online
  /\ clientCalls = 0
  /\ listening = TRUE
  /\ conflict = NoConflict
  /\ NoCache

NextFaulty ==
  \/ \E p \in 1..MaxPasses : Quiet /\ PassStart(p)
  \/ \E p \in 1..MaxPasses : PassConn(p)
  \/ \E p \in 1..MaxPasses, ok \in Outcomes : PassLoad(p, ok)
  \/ \E p \in 1..MaxPasses : PassNext(p)
  \/ \E d \in BagToSet(disp) : ApiOk(d)
  \/ \E d \in BagToSet(disp) : ApiFail(d)
  \/ \E d \in BagToSet(disp), ok \in Outcomes : DispRemoveRead(d, ok)
  \/ \E d \in BagToSet(disp), ok \in Outcomes : DispRemoveWrite(d, ok)
  \/ \E d \in BagToSet(disp), ok \in Outcomes : DispIncRead(d, ok)
  \/ \E d \in BagToSet(disp), ok \in Outcomes : DispIncWrite(d, ok)
  \/ \E t \in BagToSet(timers), ok \in Outcomes : Quiet /\ RetryFire(t, ok)

SpecFaulty == InitFaulty /\ [][NextFaulty]_vars /\ WF_vars(NextFaulty)

\* one operation at its last retry and a driver with its periodic timer, its
\* retry callbacks and a caller that clears the queue, on a storage that
\* works, observed: a pass starts when nothing else is in flight
InitRetry ==
  /\ InitCommon
  /\ store \in {<<MkOp(1, inp, 0, r)>> : inp \in AddInputs, r \in InitRetries}
  /\ nextId = 2
  /\ faults = 0
  /\ net = Online
  /\ clientCalls = MaxClears
  /\ listening = TRUE
  /\ conflict = NoConflict
  /\ NoCache

NextRetry ==
  \/ StartAutoSync
  \/ StopAutoSync
  \/ \E id \in intervals, p \in 1..MaxPasses : Quiet /\ IntervalFire(id, p)
  \/ \E p \in 1..MaxPasses : PassConn(p)
  \/ \E p \in 1..MaxPasses, ok \in Outcomes : PassLoad(p, ok)
  \/ \E p \in 1..MaxPasses : PassNext(p)
  \/ \E d \in BagToSet(disp) : ApiOk(d)
  \/ \E d \in BagToSet(disp) : ApiFail(d)
  \/ \E d \in BagToSet(disp), ok \in Outcomes : DispRemoveRead(d, ok)
  \/ \E d \in BagToSet(disp), ok \in Outcomes : DispRemoveWrite(d, ok)
  \/ \E d \in BagToSet(disp), ok \in Outcomes : DispIncRead(d, ok)
  \/ \E d \in BagToSet(disp), ok \in Outcomes : DispIncWrite(d, ok)
  \/ \E t \in BagToSet(timers), ok \in Outcomes : RetryFire(t, ok)
  \/ \E ok \in Outcomes : ClearSyncQueue(ok)

SpecRetry == InitRetry /\ [][NextRetry]_vars

\* ================================================================== claims

Rank(p) == CASE p = "high" -> 0 [] p = "medium" -> 1 [] p = "low" -> 2

InOrder(a, b) ==
  \/ Rank(a.priority) < Rank(b.priority)
  \/ Rank(a.priority) = Rank(b.priority) /\ a.timestamp <= b.timestamp

\* C1 (SpecQueue): in every reachable state the persisted queue is sorted by
\* priority rank (high < medium < low) and then by ascending timestamp,
\* whatever addToSyncQueue, removeFromSyncQueue, incrementRetryCount and
\* clearSyncQueue calls ran, interleaved or with storage rejections.
C1_QueueSorted ==
  \A i \in 1..Len(store), j \in 1..Len(store) : i < j => InOrder(store[i], store[j])

\* an insertion was moved ahead of an older operation, and a retry was counted
C1_Reordered ==
  /\ Len(store) >= 2
  /\ store[1].timestamp > store[2].timestamp
  /\ \E i \in 1..Len(store) : store[i].retries > 0

PastGuard == {p \in 1..MaxPasses : passes[p].pc \in {"load", "batch"}}

\* C2 (Spec): at most one invocation of syncPendingOperations is past the
\* isSyncing guard, loading the queue or dispatching, at any time.
C2_AtMostOnePass == Cardinality(PastGuard) <= 1

Reports(n) ==
  n.throws \/ n.isConnected = "false" \/ n.isInternetReachable = "false"

\* C3 (SpecSeq): a pass whose connectivity check reports isConnected = false or
\* isInternetReachable = false, or throws, ends there: no remote call, no
\* event, the persisted queue and the retry timers unchanged, isSyncing false.
C3_OfflinePassIsNoOp ==
  [][\A p \in 1..MaxPasses :
       (passes[p].pc = "conn" /\ passes'[p].pc # "conn" /\ Reports(net))
         => /\ passes'[p].pc = "offline"
            /\ UNCHANGED <<store, trace, timers, disp>>
            /\ isSyncing' = FALSE]_vars

\* a pass ended offline on a queue that holds an operation
C3_SkippedOffline ==
  \E p \in 1..MaxPasses : passes[p].pc = "offline" /\ Len(store) = 1 /\ Reports(net)

FailsIn(tr, id) ==
  Len(SelectSeq(tr, LAMBDA e : e.k = "result" /\ e.name = "fail" /\ e.id = id))

C4_Scenario ==
  /\ passes[1].pc = "done"
  /\ \A p \in 2..MaxPasses : passes[p].pc = "idle"
  /\ Len(passes[1].q) = 1
  /\ passes[1].q[1].type = "CREATE"
  /\ FailsIn(trace, passes[1].q[1].id) = 0

\* C4 (SpecSeq): online, with one CREATE operation queued and a remote API that
\* succeeds, one pass makes exactly one remote call, the POST of the operation's
\* endpoint and payload; then the queue is empty and exactly one
\* operationProcessed event with the operation's id was emitted, followed by
\* syncCompleted.
C4_OneCreateOnePass ==
  C4_Scenario =>
    LET op == passes[1].q[1]
    IN /\ trace = << Entry("call", "post", op.id, op.endpoint, op.data),
                     Entry("result", "ok", op.id, "", ""),
                     Entry("event", "operationProcessed", op.id, "", ""),
                     Entry("event", "syncCompleted", 0, "", "") >>
       /\ store = <<>>

\* that pass has run
C4_PassDone == C4_Scenario /\ store = <<>>

\* C5 (Spec): every operation in the queue has retries <= maxRetries, under
\* every interleaving of passes and retry callbacks whose remote calls fail.
C5_RetriesCapped ==
  \A i \in 1..Len(store) : store[i].retries <= store[i].maxRetries

InFailed(q, id) == \E i \in 1..Len(FailedOperations(q)) : FailedOperations(q)[i].id = id

\* C6 (SpecSeq): an operation (maxRetries = 3) whose dispatch failed 3 times has
\* retries = 3 and is among getFailedOperations(); when a further dispatch of
\* it fails, that dispatch ends without changing the queue and without
\* scheduling a retry timer.
C6_RetryCeiling ==
  [][/\ \A i \in 1..Len(store') :
          (FailsIn(trace', store'[i].id) = 3 /\ disp' = EmptyBag)
            => store'[i].retries = 3 /\ InFailed(store', store'[i].id)
     /\ \A d \in BagToSet(disp) :
          ( /\ d.pc = "api"
            /\ FailsIn(trace, d.op.id) >= 3
            /\ FailsIn(trace', d.op.id) > FailsIn(trace, d.op.id) )
            => /\ store' = store
               /\ timers' = timers
               /\ disp' = disp (-) One(d)
               /\ \A i \in 1..Len(store) : store[i].id = d.op.id => store[i].retries = 3
    ]_vars

\* a fourth dispatch has failed
C6_FourthFailure ==
  /\ Len(store) = 1
  /\ FailsIn(trace, store[1].id) >= 4
  /\ store[1].retries = 3
  /\ disp = EmptyBag

\* C7 (Spec): an operation with retries >= maxRetries leaves the queue only by
\* a caller's clearFailedOperations() or clearSyncQueue(): no step of a pass
\* or of a retry callback removes it.
C7_FailedStayQueued ==
  [][(clients' = clients /\ clientCalls' = clientCalls)
       => \A i \in 1..Len(store) :
            store[i].retries >= store[i].maxRetries => store[i].id \in Ids(store')]_vars

Doubling(k) == CASE k = 0 -> 5000 [] k = 1 -> 10000 [] k = 2 -> 20000 [] OTHER -> -1

\* C8 (SpecSeq): the retry scheduled after a failed dispatch of an operation
\* that had k retries before the failure is delayed by retryDelay * 2^k:
\* 5000, 10000 and 20000 ms for k = 0, 1, 2.
C8_BackoffDoubles ==
  [][\A t \in BagToSet(timers') :
       CopiesIn(t, timers') > CopiesIn(t, timers)
         => LET i == FindIndex(store, t.id)
            IN /\ i # 0
               /\ t.delay = RetryDelay * 2^(store[i].retries)
               /\ t.delay = Doubling(store[i].retries)
               /\ store'[FindIndex(store', t.id)].retries = store[i].retries + 1]_vars

\* the retry after the third failure is scheduled
C8_ThirdRetryScheduled == \E t \in BagToSet(timers) : t.delay = 20000

\* numbers, undefined and, when asked for, null
IsPrimitive(x, withNull) == x.t \in {"prim", "undef"} \/ (withNull /\ x.t = "null")

RECURSIVE FirstOccurrences(_)
FirstOccurrences(a) ==
  IF a = <<>> THEN <<>>
  ELSE LET front == FirstOccurrences(SubSeq(a, 1, Len(a) - 1))
           last == a[Len(a)]
       IN IF \E i \in 1..(Len(a) - 1) : a[i] = last THEN front ELSE Append(front, last)

LocalOverServer(l, s) == [k \in AllKeys |-> IF l.o[k] # 0 THEN l.o[k] ELSE s.o[k]]

MergeAsClaimed(l, s, r) ==
  /\ (l.t = "arr" /\ s.t = "arr") => r = Arr(FirstOccurrences(l.a \o s.a))
  /\ (l.t = "obj" /\ s.t = "obj") => r = Obj(LocalOverServer(l, s))

ResolvedAsClaimed(withNull) ==
  conflict.called =>
    LET l == conflict.local
        s == conflict.server
        r == conflict.result
    IN CASE conflict.strategy = "clientWins" -> r = Returned("value", l, Undefined)
         [] conflict.strategy = "manual" -> r = Returned("both", l, s)
         [] conflict.strategy = "merge" ->
              /\ r.kind = "value"
              /\ MergeAsClaimed(l, s, r.val)
              /\ (IsPrimitive(l, withNull) \/ IsPrimitive(s, withNull)) => r.val = s
         [] OTHER -> r = Returned("value", s, Undefined)

\* C9 (SpecResolve): resolveConflicts returns server for 'serverWins' and for an
\* omitted or unknown strategy, local for 'clientWins', both versions for
\* 'manual', and for 'merge' the arrays' elements (local first) without later
\* duplicates, the objects' keys with local's value on a collision, and server
\* when either argument is a primitive.
C9_ResolveConflicts == ResolvedAsClaimed(TRUE)

\* the same with null left out of the primitives
C9_ApartFromNull == ResolvedAsClaimed(FALSE)

\* C10 (SpecQueueSeq): removeFromSyncQueue with an id that is not in the queue (a
\* first or a repeated call) leaves the queue's contents and order as they
\* were, also when the storage read or write fails.
C10_RemoveAbsentIsNoOp ==
  [][\A c \in BagToSet(clients) :
       (c.kind = "rm" /\ clients' = clients (-) One(c) /\ c.id \notin Ids(store))
         => store' = store]_vars

C12_AddKeepsQueue ==
  [][\A c \in BagToSet(clients) :
       (c.kind = "add" /\ clients' = clients (-) One(c) /\ faults' = faults)
         => /\ \E i \in 1..Len(store') :
                 /\ store'[i].id = c.id
                 /\ store'[i].retries = 0
                 /\ store'[i].maxRetries = 3
            /\ Ids(store) \subseteq Ids(store')]_vars

Has(dict, id) == \E i \in 1..Len(dict) : dict[i].id = id

ItemOf(dict, id) == dict[CHOOSE i \in 1..Len(dict) : dict[i].id = id]

OthersKept(before, after, id) ==
  \A k \in RecordIds \ {id} :
    /\ Has(before, k) <=> Has(after, k)
    /\ Has(before, k) => ItemOf(after, k) = ItemOf(before, k)

\* C13 (SpecCacheSeq): when addItem(id, d) has resolved the item id exists
\* with status pending and syncAttempts 0; when markAsSynced(id) on an existing
\* item has resolved the item has status synced, syncAttempts 0 and no
\* errorMessage; in both cases the dictionary in memory is the one persisted
\* under the data-type key and every other item is as it was.
C13_AddedPendingMarkedSynced ==
  LET id == lastCall.id
      before == lastCall.before.data
      after == lastCall.after.data
  IN /\ (lastCall.kind = "addItem" /\ ~lastCall.threw)
          => /\ Has(after, id)
             /\ ItemOf(after, id).status = "pending"
             /\ ItemOf(after, id).syncAttempts = 0
             /\ lastCall.after.blob = [has |-> TRUE, items |-> after]
             /\ OthersKept(before, after, id)
     /\ (lastCall.kind = "markAsSynced" /\ ~lastCall.threw /\ Has(before, id))
          => /\ Has(after, id)
             /\ ItemOf(after, id).status = "synced"
             /\ ItemOf(after, id).syncAttempts = 0
             /\ ItemOf(after, id).errorMessage = "<undefined>"
             /\ lastCall.after.blob = [has |-> TRUE, items |-> after]
             /\ OthersKept(before, after, id)

\* markAsSynced has resolved on an item that had been attempted, beside another
C13_MarkedAfterAttempt ==
  /\ lastCall.kind = "markAsSynced"
  /\ Has(lastCall.before.data, lastCall.id)
  /\ ItemOf(lastCall.before.data, lastCall.id).syncAttempts > 0
  /\ Len(lastCall.after.data) = 2

\* C14 (SpecSyncItem): when the enqueue made by syncItem(id) fails, the item is
\* stored with status error, a non-empty errorMessage and one more
\* syncAttempt, isSyncing is false again and syncItem rejects with the
\* enqueue's error.
C14_FailedEnqueueMarksError ==
  (lastCall.kind = "syncItem" /\ lastCall.enqFailed)
    => /\ lastCall.after.blob.has
       /\ Has(lastCall.after.blob.items, lastCall.id)
       /\ LET was == ItemOf(lastCall.before.data, lastCall.id)
              item == ItemOf(lastCall.after.blob.items, lastCall.id)
          IN /\ item.status = "error"
             /\ item.errorMessage \notin {"", "<undefined>"}
             /\ item.syncAttempts = was.syncAttempts + 1
       /\ ~lastCall.syncing
       /\ lastCall.threw
       /\ lastCall.err = lastCall.caught

\* C14 as the code has it: a syncItem(id) whose enqueue fails always rejects
\* and resets isSyncing. When the key-value store accepts the write of the
\* error status, the item is stored (and in memory) with status error, the
\* error's message or 'Unknown error', and one more syncAttempt, and syncItem
\* rejects with the enqueue's error; when that write is rejected too, memory
\* and storage are as before the call and syncItem rejects with the write's
\* error.
C14_ErrorSavedIfStoreAccepts ==
  (lastCall.kind = "syncItem" /\ lastCall.enqFailed /\ lastCall.id \in RecordIds)
    => /\ lastCall.threw
       /\ ~lastCall.syncing
       /\ IF lastCall.errSaved
          THEN /\ lastCall.err = lastCall.caught
               /\ lastCall.after.blob = [has |-> TRUE, items |-> lastCall.after.data]
               /\ LET was == ItemOf(lastCall.before.data, lastCall.id)
                      item == ItemOf(lastCall.after.data, lastCall.id)
                  IN /\ item.status = "error"
                     /\ item.errorMessage =
                          (IF lastCall.caught.isError THEN lastCall.caught.message
                           ELSE "Unknown error")
                     /\ item.syncAttempts = was.syncAttempts + 1
                     /\ item.data = was.data
               /\ OthersKept(lastCall.before.data, lastCall.after.data, lastCall.id)
          ELSE /\ lastCall.err \in Rejections
               /\ lastCall.after.data = lastCall.before.data
               /\ lastCall.after.blob = lastCall.before.blob

\* a failed enqueue whose error, not an Error object, was saved with the item
C14_UnknownErrorSaved ==
  /\ lastCall.kind = "syncItem"
  /\ lastCall.enqFailed
  /\ lastCall.errSaved
  /\ ~lastCall.caught.isError

TypeFor(kind) ==
  CASE kind = "addItem" -> "CREATE" [] kind = "updateItem" -> "UPDATE" [] OTHER -> "DELETE"

PriorityFor(kind) == IF kind = "addItem" THEN "high" ELSE "medium"

EndpointFor(id) == CASE id = "a" -> "/courses/a" [] id = "b" -> "/courses/b"

Appended(q0, q1, op) ==
  /\ Len(q1) = Len(q0) + 1
  /\ op.id \notin Ids(q0)
  /\ SelectSeq(q1, LAMBDA o : o.id # op.id) = q0

\* C15 (SpecCacheSeq): an addItem, updateItem or deleteItem that has resolved
\* has appended exactly one operation to the sync queue if the hook's isOnline
\* was true at the call (CREATE / high, UPDATE / medium, DELETE / medium, on
\* /<dataType>/<id>) and has left the queue as it was if not; either way the
\* updated dictionary is persisted.
C15_EnqueueIffOnline ==
  (lastCall.kind \in {"addItem", "updateItem", "deleteItem"} /\ ~lastCall.threw)
    => LET q0 == lastCall.before.store
           q1 == lastCall.after.store
       IN /\ IF lastCall.sawOnline
             THEN \E i \in 1..Len(q1) :
                    /\ Appended(q0, q1, q1[i])
                    /\ q1[i].type = TypeFor(lastCall.kind)
                    /\ q1[i].priority = PriorityFor(lastCall.kind)
                    /\ q1[i].endpoint = EndpointFor(lastCall.id)
                    /\ q1[i].retries = 0
             ELSE q1 = q0
          /\ lastCall.after.blob = [has |-> TRUE, items |-> lastCall.after.data]
          /\ Has(lastCall.after.data, lastCall.id) <=> lastCall.kind # "deleteItem"
          /\ lastCall.kind # "deleteItem"
               => ItemOf(lastCall.after.data, lastCall.id).status = "pending"

\* a second operation was enqueued by a mutation made online, and a mutation
\* made offline has left the queue alone
C15_SecondEnqueued ==
  /\ lastCall.kind \in {"addItem", "updateItem", "deleteItem"}
  /\ ~lastCall.threw
  /\ lastCall.sawOnline
  /\ Len(lastCall.after.store) = 2

\* C16 (SpecCacheSeq): updateItem on an id that is not in the dictionary throws
\* the item-not-found error and goes no further: the dictionary in memory, the
\* persisted one and the sync queue are unchanged and nothing is left in
\* flight.
C16_UpdateUnknownFails ==
  [][/\ (userCalls' # userCalls /\ tasks' = tasks)
          => /\ lastCall'.kind = "updateItem"
             /\ ~Has(data, lastCall'.id)
             /\ lastCall'.threw
             /\ lastCall'.err.message = "not found"
             /\ UNCHANGED <<data, blob, store>>
     /\ \A t \in BagToSet(tasks') : t.kind = "updateItem" => Has(t.snap, t.id)]_vars

\* an updateItem on an unknown id has thrown beside another item and a queued
\* operation
C16_UnknownRejected ==
  /\ lastCall.kind = "updateItem"
  /\ lastCall.threw
  /\ Len(data) > 0
  /\ Len(store) > 0

\* the driver has emitted operationProcessed for an operation on the record
Processed(r) ==
  \E i \in 1..Len(trace), j \in 1..Len(trace) :
    /\ trace[i].k = "call" /\ trace[i].endpoint = EndpointFor(r)
    /\ trace[j].k = "event" /\ trace[j].name = "operationProcessed"
    /\ trace[j].id = trace[i].id

Queued(r) == \E i \in 1..Len(store) : store[i].endpoint = EndpointFor(r)

\* C17 (SpecBoth): once the driver's remote call for an operation enqueued for
\* a cached record has succeeded, the operation is gone from the queue and,
\* when nothing is in flight, scheduled or due any more and no other operation
\* of the record is queued, the record's status is synced.
C17_ProcessedBecomesSynced ==
  (Idle /\ timers = EmptyBag /\ ~effectDue /\ offline = {})
    => \A r \in RecordIds :
         (Processed(r) /\ ~Queued(r) /\ Has(data, r))
           => ItemOf(data, r).status = "synced"

\* C18 (SpecCacheSeq): once the hook is online again with auto-sync enabled and
\* nothing is in flight or due, every addItem, updateItem and deleteItem made
\* while offline has a CREATE, UPDATE or DELETE operation for its record's
\* endpoint in the sync queue.
C18_OfflineMutationsQueued ==
  (autoSync /\ online /\ tasks = EmptyBag /\ ~effectDue)
    => \A m \in offline :
         \E i \in 1..Len(store) :
           store[i].type = m[1] /\ store[i].endpoint = EndpointFor(m[2])

PendingIds(dict) == {id \in RecordIds : Has(dict, id) /\ ItemOf(dict, id).status = "pending"}

NewEntries(q0, q1, id) ==
  {i \in 1..Len(q1) : q1[i].id \notin Ids(q0) /\ q1[i].endpoint = EndpointFor(id)}

\* C19 (SpecCacheSeq): a syncAll whose syncItem calls have all resolved has
\* enqueued one operation for each item that was pending at the call and none
\* for another item, has left the other items as they were, and has increased
\* the persisted syncAttempts of each of those pending items by one.
C19_SyncAllPending ==
  (lastCall.kind = "syncAll" /\ ~lastCall.threw)
    => LET before == lastCall.before.data
           after == lastCall.after.blob.items
           q0 == lastCall.before.store
           q1 == lastCall.after.store
       IN \A id \in RecordIds :
            IF id \in PendingIds(before)
            THEN /\ Cardinality(NewEntries(q0, q1, id)) = 1
                 /\ Has(after, id)
                 /\ ItemOf(after, id).syncAttempts = ItemOf(before, id).syncAttempts + 1
            ELSE /\ NewEntries(q0, q1, id) = {}
                 /\ Has(before, id) <=> Has(after, id)
                 /\ Has(before, id) => ItemOf(after, id) = ItemOf(before, id)

\* C20 (SpecCacheSeq): without a call from the user interface, the auto-sync
\* effect has called syncAll at most once per turn of isOnline to true, and the
\* sync queue holds at most one operation per item and such turn.
C20_AutoSyncOncePerTransition ==
  (cacheCalls = MaxCacheCalls)
    => /\ autoSyncs <= wentOnline
       /\ Len(store) <= wentOnline * Len(data)

\* C21: every broadcast calls each listener that was registered when it
\* started exactly once, in registration order, whatever the listeners throw
\* or remove meanwhile, and no listener's exception escapes emitEvent
C21_BroadcastIsolated ==
  /\ emitted.called = emitted.before
  /\ ~emitted.escaped

IsAuto(kind) == lastAuto'.n # lastAuto.n /\ lastAuto'.kind = kind

\* C22: at most one interval timer is installed at any time; a startAutoSync
\* made while a timer is installed installs nothing and emits nothing; and the
\* interval callback never runs between a stopAutoSync and the next
\* startAutoSync
C22_OneTimer ==
  [][ /\ Cardinality(intervals') <= 1
      /\ (IsAuto("start") /\ intervals # {})
           => UNCHANGED <<intervals, syncIntervalId, timerIds, trace>>
      /\ IsAuto("tick") => lastAuto.kind \in {"start", "tick"} ]_vars

\* a second startAutoSync was made while the timer of the first was installed
C22_StartedTwice ==
  /\ lastAuto.kind = "start"
  /\ lastAuto.was
  /\ Cardinality(intervals) = 1
  /\ Len(SelectSeq(trace, LAMBDA e : e.k = "event" /\ e.name = "syncStarted")) = 1
  /\ \E p \in 1..MaxPasses : passes[p].pc # "idle"

Unread(list) == Len(SelectSeq(list, LAMBDA n : ~n.read))

\* C23: unreadCount is the number of stored notifications that are not read,
\* and the stored notifications are at most KeepLast, among the KeepLast most
\* recently added
C23_UnreadCountExact ==
  /\ unreadCount = Unread(notifications)
  /\ Len(notifications) <= KeepLast
  /\ \A i \in 1..Len(notifications) : notifications[i].id > noteIds - KeepLast

\* the batch a queue position falls in, and its place in that batch
BatchOf(i) == ((i - 1) \div BatchSize) + 1

PlaceOf(i) == ((i - 1) % BatchSize) + 1

\* the positions of a snapshot a pass dispatches
Chosen(q) == {i \in 1..Len(q) : PlaceOf(i) <= MaxConcurrentSyncs}

RunBy(p, d) == {t \in BagToSet(d) : t.parent = p}

\* C24: a pass cuts the queue it read into consecutive batches of BatchSize;
\* when it starts a batch nothing it dispatched before is unsettled and what
\* it dispatches is exactly the first MaxConcurrentSyncs operations of that
\* batch; the other operations of the snapshot are never dispatched by the
\* pass and stay in the queue as they were
C24_BatchesInOrder ==
  /\ [](\A p \in 1..MaxPasses :
          passes[p].pc \in {"batch", "done"} =>
            /\ \A t \in RunBy(p, disp) :
                 \E i \in Chosen(passes[p].q) :
                   BatchOf(i) = passes[p].bi /\ passes[p].q[i].id = t.op.id
            /\ \A i \in (1..Len(passes[p].q)) \ Chosen(passes[p].q) :
                 \E j \in 1..Len(store) : store[j] = passes[p].q[i])
  /\ [][\A p \in 1..MaxPasses :
          (passes'[p].pc = "batch" /\ passes'[p].bi # passes[p].bi) =>
            /\ RunBy(p, disp) = {}
            /\ (passes'[p].bi = 1) => (passes'[p].q = store)
            /\ RunBy(p, disp') =
                 {DispTask(passes'[p].q[i], "api", p, <<>>) :
                    i \in {c \in Chosen(passes'[p].q) : BatchOf(c) = passes'[p].bi}}
            /\ BagCardinality(disp') =
                 BagCardinality(disp) + Cardinality(RunBy(p, disp'))]_vars

\* a pass went through two batches
C24_SecondBatchDone ==
  \E p \in 1..MaxPasses :
    /\ passes[p].pc = "done"
    /\ passes[p].bi = 2
    /\ Len(passes[p].q) > BatchSize
    /\ Len(store) < Len(passes[p].q)

\* C26: once every operation a pass dispatched has settled, each one whose
\* remote call succeeded is gone from the persisted queue and each one whose
\* remote call failed has one more retry, however their queue updates
\* interleaved
C26_NoLostUpdate ==
  \A p \in 1..MaxPasses :
    (passes[p].pc = "done" /\ disp = EmptyBag) =>
      \A i \in Chosen(passes[p].q) :
        LET op == passes[p].q[i]
        IN IF \E t \in BagToSet(timers) : t.id = op.id
           THEN \E j \in 1..Len(store) :
                  store[j] = [op EXCEPT !.retries = op.retries + 1]
           ELSE op.id \notin Ids(store)

\* C25: with connectivity and passes that recur, no operation stays in the
\* queue for ever without being sent to the remote API, whatever happens to
\* the operations ahead of it
C25_EventuallySent ==
  \A i \in 1..(MaxConcurrentSyncs + 1) :
    (i \in Ids(store))
      ~> (i \notin Ids(store) \/ \E d \in BagToSet(disp) : d.op.id = i /\ d.pc = "api")

Events(name, id) ==
  Len(SelectSeq(trace, LAMBDA e : e.k = "event" /\ e.name = name /\ e.id = id))

Results(name) == Len(SelectSeq(trace, LAMBDA e : e.k = "result" /\ e.name = name))

HasReturned(p) == passes[p].pc \in {"done", "failed"}

\* what holds of the passes that have set isSyncing, whatever failed: none has
\* emitted a pass-level syncFailed or was cut short, each one counted has
\* gone through all its batches and emitted one syncCompleted, and isSyncing
\* is false once they have returned
PassesComplete(counted) ==
  /\ Events("syncFailed", 0) = 0
  /\ \A p \in 1..MaxPasses : passes[p].pc # "failed"
  /\ \A p \in counted : passes[p].bi = NumBatches(passes[p].q)
  /\ Events("syncCompleted", 0) = Cardinality(counted)
  /\ (\A p \in 1..MaxPasses : passes[p].pc \notin {"load", "batch"}) => ~isSyncing

\* C27 as stated: every pass that has set isSyncing and returned has emitted
\* syncCompleted and no pass-level syncFailed, and isSyncing is false again
C27_PassCompletes ==
  PassesComplete({p \in 1..MaxPasses : HasReturned(p)})

\* C27: whichever remote calls and queue writes fail, every pass that read a
\* non-empty queue goes through all its batches, emits syncCompleted and no
\* pass-level syncFailed, and isSyncing always becomes false again
C27_NonEmptyPassCompletes ==
  /\ [] PassesComplete({p \in 1..MaxPasses : HasReturned(p) /\ passes[p].q # <<>>})
  /\ (isSyncing ~> ~isSyncing)

\* a pass has completed although a remote call failed and the storage rejected
\* an access
C27_CompletedDespiteFailures ==
  /\ \E p \in 1..MaxPasses : passes[p].pc = "done" /\ passes[p].q # <<>>
  /\ Events("syncCompleted", 0) >= 1
  /\ Results("fail") >= 1
  /\ faults < MaxFaults
  /\ ~isSyncing

\* C28: a pass whose read of the persisted queue is rejected emits one
\* syncFailed and nothing else, makes no remote call, leaves the stored queue
\* as it is and resets isSyncing
C28_ReadFailureReported ==
  [][\A p \in 1..MaxPasses :
       (passes[p].pc = "load" /\ passes'[p].pc # "load" /\ faults' < faults) =>
         /\ trace' = Append(trace, EventEntry("syncFailed", 0))
         /\ ~isSyncing'
         /\ store' = store
         /\ disp' = disp]_vars

AtApi(id) == {d \in BagToSet(disp) : d.pc = "api" /\ d.op.id = id}

\* C30: at any time at most one remote call is unresolved per operation id,
\* and a remote call is unresolved only while isSyncing is set
C30_OneCallPerOperation ==
  \A d \in BagToSet(disp) :
    d.pc = "api" =>
      /\ Cardinality(AtApi(d.op.id)) = 1
      /\ CopiesIn(d, disp) = 1
      /\ isSyncing

CallsFor(id) == Len(SelectSeq(trace, LAMBDA e : e.k = "call" /\ e.id = id))

\* C29: a retry callback that runs for an operation that is no longer in the
\* queue makes no remote call, leaves the queue as it is and emits nothing;
\* and stopAutoSync leaves the scheduled retries scheduled
C29_RetryOfAbsentIsNoOp ==
  [][ /\ IsAuto("stop") => timers' = timers
      /\ \A t \in BagToSet(timers) :
           (~IsAuto("stop") /\ timers' = timers (-) One(t) /\ t.id \notin Ids(store))
             => UNCHANGED <<store, disp, trace, isSyncing, passes>> ]_vars

\* the operation failed once, was removed, auto-sync was stopped, and its
\* retry callback has run without sending it again
C29_RetryFoundNothing ==
  /\ Events("syncFailed", 1) = 1
  /\ CallsFor(1) = 1
  /\ 1 \notin Ids(store)
  /\ timers = EmptyBag
  /\ disp = EmptyBag
  /\ lastAuto.kind = "stop"

====
